---- MODULE Spec2Model ----
(***************************************************************************)
(* fsdb: a filesystem-backed record store (Database > Table > Record).     *)
(*                                                                         *)
(* One database with a single table "t" is modelled.  The table has the    *)
(* schema Table.create produces for the user fields val1:str,              *)
(* val2:datetime, val3:tuple with an int id.                               *)
(*                                                                         *)
(* The source files are of different revisions and name each other's       *)
(* members differently; the model resolves the names as follows:           *)
(*   table.main_index                -> "id" (table.py uses 'id')          *)
(*   Field.get_new_sequence_value    -> Table.get_new_id                   *)
(*   Field.get_from_index            -> Field.get_value_from_index         *)
(*   Field.FIELD_TYPES_IN_DATA       -> the "simple" types of FIELD_TYPES  *)
(*   index_build of the main index   -> TRUE (Field.build_index's fake     *)
(*                                      build of the main index)           *)
(*   Record.id (field.py 261)        -> Record.index                       *)
(*   Database._closed (read by the Table and Field guards) is set by the   *)
(*   close operation, which these sources do not hold.                     *)
(*   Table.update (called by update_table) is not in these sources either; *)
(*   nor is the Record.write / Record.read that calls Field.write and      *)
(*   Field.read (record.py leaves the files as a TODO).                    *)
(*                                                                         *)
(* Specifications:                                                         *)
(*   Spec         the record lifecycle on one table, ids up to MaxId       *)
(*   SpecDomain   evaluate_domain on processed domains                     *)
(*   SpecRecords  creates, writes and deletes, ids up to MaxRecordId       *)
(*   SpecSchema   records of a table whose field set changes               *)
(*   SpecTable    searches with a limit or an order, ids up to MaxTableId  *)
(*   SpecFiles    Field.write and Field.read on file and file_list fields  *)
(*   SpecCache    the cache of one record under reads, writes and size     *)
(*                changes, with the hash table of the dict Cache.cache     *)
(*   SpecWrites   a write followed by the same write                       *)
(*   SpecDeletes  records and the table deleted and created again          *)
(*   SpecSteps    create, write and delete taken one statement at a time   *)
(*   SpecOpen     databases opened, created and deleted under root_path    *)
(*   SpecKeys     the cache keys of the records of several tables          *)
(*   SpecCreate   Table.create on table names and field lists with raw     *)
(*                names and types                                          *)
(*   SpecLoad     a table loaded again, with the prefetch of its indexes   *)
(*   SpecOrphans  record directories left without a data.json, and loads   *)
(*   SpecEval     the while loop of evaluate_domain, one pass at a time    *)
(*   SpecCoherent reads through the cache against reads from the disk      *)
(*   SpecAgree    the loop of search_records against evaluate_domain       *)
(*   SpecValidate validate_domain against evaluate_domain on the outcomes  *)
(*                of the filters                                           *)
(*                                                                         *)
(* MaxEntries bounds the entries the hash table of Cache.cache takes: a    *)
(* dict never gives entries back on a delete, so the table of a run that   *)
(* sets and deletes keys without end cycles through its sizes.             *)
(*                                                                         *)
(* Values are pairs <<tag, n>>: the tag is the Python type, n identifies   *)
(* the content.  Dicts are functions whose domain is a set of strings.     *)
(***************************************************************************)
EXTENDS Integers, Sequences, FiniteSets, TLC

VARIABLES
    disk,             \* table directory: record directory name -> content of its data.json
    table_on_disk,    \* the table directory (with its data.json) exists
    record_ids,       \* Table.record_ids (a list, not sorted)
    table_deleted,    \* Table._deleted
    closed,           \* Database._closed
    cache,            \* Cache.cache: key -> dict
    cache_table,      \* the hash table CPython keeps for the dict Cache.cache
    access_list,      \* Cache.access_list: keys, least recently used first
    cache_size,       \* Cache.cache_size
    cache_size_limit, \* Cache.cache_size_limit
    handles,          \* Record objects held by the caller: [index, deleted]
    written,          \* history: id -> the value last written to each user field of the record
    fields,           \* Table.fields: the names of the fields of the table
    files,            \* the attachments of the record directory: path -> bytes
    root,             \* the database directories under root_path: their names
    tables,           \* the table directories of the database besides t: name -> directory
    last              \* the last call and what it returned or raised

vars == <<disk, table_on_disk, record_ids, table_deleted, closed, cache, cache_table, access_list,
          cache_size, cache_size_limit, handles, written, fields, files, root, tables,
          last>>

---------------------------------------------------------------------------
(* Bounds *)

MaxId == 1
MaxDomainLen == 4
MaxTableId == 2
MaxRecordId == 2

\* the entries the hash table of the dict Cache.cache takes in a run
MaxEntries == 3

Ids == 1..MaxId

---------------------------------------------------------------------------
(* Small helpers on sequences and dicts *)

Range(s) == {s[i] : i \in 1..Len(s)}

RemoveAt(s, i) == SubSeq(s, 1, i - 1) \o SubSeq(s, i + 1, Len(s))

\* list.remove(x): removes the first occurrence
RemoveFirst(s, x) ==
    IF x \in Range(s)
    THEN RemoveAt(s, CHOOSE i \in 1..Len(s) : s[i] = x /\ \A j \in 1..(i - 1) : s[j] # x)
    ELSE s

EmptyDict == <<>>

\* dict(old, **new)
DictMerge(old, new) == new @@ old

DictRestrict(d, keys) == [k \in keys |-> d[k]]

DictRemove(d, key) == [k \in (DOMAIN d) \ {key} |-> d[k]]

---------------------------------------------------------------------------
(* Values and fields *)

None == <<"none", 0>>

TableName == "t"

\* the database the tables are made in
DbName == <<"d", "b">>

\* the field set Table.create builds: the user's fields plus the three system fields
FieldType ==
    [id |-> "int", val1 |-> "str", val2 |-> "datetime", val3 |-> "tuple",
     create_datetime |-> "datetime", modify_datetime |-> "datetime"]

FieldNames == fields

\* Field.index: only the id field is declared with index
FieldIndex(name) == name = "id"

\* Field.index_build: the main index is (fake-)built, no other index exists
FieldIndexBuild(name) == name = "id"

IntVal(n) == <<"int", n>>

\* values a caller writes to the user fields
FieldValues ==
    [val1 |-> {<<"str", 1>>, <<"str", 2>>},
     val2 |-> {<<"datetime", 1>>},
     val3 |-> {<<"tuple", 1>>}]

UserFields == DOMAIN FieldValues

\* Field.val2str: str() of an int, strftime of a datetime (TypeError for a value that is
\* no datetime)
val2str(type, val) ==
    CASE type = "int" -> ToString(val[2])
      [] type = "datetime" -> IF val[1] = "datetime" THEN <<"str_datetime", val[2]>>
                              ELSE "TypeError"
      [] OTHER -> "FsdbError"

\* Field.str2val: int() of the string, strptime of a datetime string
str2val(type, val_str) ==
    CASE type = "int" -> IntVal(CHOOSE n \in 0..(MaxId + MaxTableId + MaxRecordId) : ToString(n) = val_str)
      [] type = "datetime" -> <<"datetime", val_str[2]>>
      [] OTHER -> <<"FsdbError", 0>>

\* json.dumps followed by json.loads: a tuple comes back as a list
JsonRoundTrip(v) == IF v[1] = "tuple" THEN <<"list", v[2]>> ELSE v

---------------------------------------------------------------------------
(* Domain algebra (tools.py).  A processed domain is a sequence of tokens: *)
(* "T" and "F" are the booleans True and False, every other token is a     *)
(* Python str.                                                             *)

IsBool(t) == t \in {"T", "F"}

\* Python's `a and b` / `a or b` for a bool a: the result is one of the operands
PyAnd(a, b) == IF a = "T" THEN b ELSE a

PyOr(a, b) == IF a = "T" THEN a ELSE b

\* the first rewrite without the pop of line 87: domain[0] takes the conjunction and
\* domain[1] stays
EvalRuleHeadNoPop(d) ==
    IF Len(d) >= 2 /\ IsBool(d[1]) /\ IsBool(d[1])
    THEN [d EXCEPT ![1] = PyAnd(d[1], d[2])]
    ELSE d

\* [bool, bool, ...] -> [(bool and bool), ...]   (the test reads domain[0] twice)
EvalRuleHead(d) ==
    IF Len(d) >= 2 /\ IsBool(d[1]) /\ IsBool(d[1])
    THEN <<PyAnd(d[1], d[2])>> \o SubSeq(d, 3, Len(d))
    ELSE d

\* bool, bool, bool -> bool, (bool and bool): the first such triple
EvalRuleTriple(d) ==
    LET I == {i \in 1..(Len(d) - 2) : IsBool(d[i]) /\ IsBool(d[i + 1]) /\ IsBool(d[i + 2])}
    IN  IF I = {} THEN d
        ELSE LET i == CHOOSE j \in I : \A k \in I : j <= k
             IN  RemoveAt([d EXCEPT ![i + 1] = PyAnd(d[i + 1], d[i + 2])], i + 2)

\* op, bool, bool -> (bool op bool): the first such triple; an op that is neither
\* '&' nor '|' raises
EvalRuleOp(d) ==
    LET I == {i \in 1..(Len(d) - 2) : ~IsBool(d[i]) /\ IsBool(d[i + 1]) /\ IsBool(d[i + 2])}
    IN  IF I = {} THEN [raised |-> FALSE, dom |-> d]
        ELSE LET i == CHOOSE j \in I : \A k \in I : j <= k
             IN  IF d[i] = "&"
                 THEN [raised |-> FALSE,
                       dom |-> RemoveAt(RemoveAt([d EXCEPT ![i] = PyAnd(d[i + 1], d[i + 2])], i + 2), i + 1)]
                 ELSE IF d[i] = "|"
                 THEN [raised |-> FALSE,
                       dom |-> RemoveAt(RemoveAt([d EXCEPT ![i] = PyOr(d[i + 1], d[i + 2])], i + 2), i + 1)]
                 ELSE [raised |-> TRUE, dom |-> d]

\* one pass of the while loop: the three rewrites in turn
EvalPass(d) == EvalRuleOp(EvalRuleTriple(EvalRuleHead(d)))

RECURSIVE EvalLoop(_)
EvalLoop(d) ==
    LET p == EvalPass(d)
    IN  IF p.raised THEN "DomainError"
        ELSE IF Len(p.dom) < Len(d) THEN EvalLoop(p.dom)
        ELSE IF Len(d) # 1 THEN "DomainError"
        ELSE IF ~IsBool(d[1]) THEN "DomainError"
        ELSE d[1]

\* tools.evaluate_domain: "T", "F" or "DomainError"
evaluate_domain(d) == IF Len(d) = 0 THEN "T" ELSE EvalLoop(d)

---------------------------------------------------------------------------
(* Raw domains.  An entry of a domain is a str token, a tuple/list of n    *)
(* elements (a filter when n = 3) or something else (an int).  The value   *)
(* of a filter is a set: one value, or the elements of a list.             *)

Tok(s) == [k |-> "str", tok |-> s, n |-> 0, f |-> "", eq |-> "", v |-> {}, vlist |-> FALSE]

Filter(f, eq, val) ==
    [k |-> "tuple", tok |-> "", n |-> 3, f |-> f, eq |-> eq, v |-> {val}, vlist |-> FALSE]

FilterIn(f, eq, vals) ==
    [k |-> "tuple", tok |-> "", n |-> 3, f |-> f, eq |-> eq, v |-> vals, vlist |-> TRUE]

ShortTuple == [k |-> "tuple", tok |-> "", n |-> 2, f |-> "id", eq |-> "=", v |-> {}, vlist |-> FALSE]

NotATuple == [k |-> "other", tok |-> "", n |-> 0, f |-> "", eq |-> "", v |-> {}, vlist |-> FALSE]

\* a domain: the Python type of the container and its entries
Domain(type, items) == [type |-> type, items |-> items]

ListDomain(items) == Domain("list", items)

\* validate_domain with every filter replaced by False in place of True
ValidateWithFalse(domain, valid_fields) ==
    LET items == domain.items
        BadEntry(e) ==
            IF e.k = "str" THEN e.tok \notin {"&", "|"}
            ELSE \/ e.k # "tuple"
                 \/ e.n # 3
                 \/ e.f \notin valid_fields
                 \/ (e.eq \in {"in", "not in"} /\ ~e.vlist)
        fake == [i \in 1..Len(items) |-> IF items[i].k = "str" THEN items[i].tok ELSE "F"]
    IN  IF Len(items) = 0 THEN "ok"
        ELSE IF domain.type # "list" THEN "DomainError"
        ELSE IF \E i \in 1..Len(items) : BadEntry(items[i]) THEN "DomainError"
        ELSE IF evaluate_domain(fake) = "DomainError" THEN "DomainError"
        ELSE "ok"

\* tools.validate_domain: "ok" or "DomainError"
validate_domain(domain, valid_fields) ==
    LET items == domain.items
        BadEntry(e) ==
            IF e.k = "str" THEN e.tok \notin {"&", "|"}
            ELSE \/ e.k # "tuple"
                 \/ e.n # 3
                 \/ e.f \notin valid_fields
                 \/ (e.eq \in {"in", "not in"} /\ ~e.vlist)
        fake == [i \in 1..Len(items) |-> IF items[i].k = "str" THEN items[i].tok ELSE "T"]
    IN  IF Len(items) = 0 THEN "ok"               \* `domain if domain else []`
        ELSE IF domain.type # "list" THEN "DomainError"
        ELSE IF \E i \in 1..Len(items) : BadEntry(items[i]) THEN "DomainError"
        ELSE IF evaluate_domain(fake) = "DomainError" THEN "DomainError"
        ELSE "ok"

---------------------------------------------------------------------------
(* The reduction loop that Table.search_records, Database.search and       *)
(* Manager.search_records run on the processed domain of one record.       *)

RECURSIVE SearchReduce(_)
SearchReduce(dp) ==
    LET I == {i \in 1..(Len(dp) - 1) : IsBool(dp[i]) /\ IsBool(dp[i + 1])}
    IN  IF Len(dp) < 2 \/ I = {} THEN [raised |-> FALSE, dom |-> dp]
        ELSE LET i == CHOOSE j \in I : \A k \in I : j <= k
                 op == IF i >= 2 /\ ~IsBool(dp[i - 1]) THEN dp[i - 1] ELSE "&"
                 out == IF op = "&" THEN PyAnd(dp[i], dp[i + 1]) ELSE PyOr(dp[i], dp[i + 1])
             IN  IF op \notin {"&", "|"} THEN [raised |-> TRUE, dom |-> dp]
                 ELSE IF i = 1
                 THEN SearchReduce([RemoveAt(dp, 2) EXCEPT ![1] = out])
                 ELSE SearchReduce(RemoveAt([RemoveAt(dp, i + 1) EXCEPT ![i - 1] = out], i))

\* the result for one record: "T", "F" or "FsdbError"
SearchEvaluate(dp) ==
    LET r == SearchReduce(dp)
    IN  IF r.raised \/ Len(r.dom) > 1 THEN "FsdbError"
        ELSE IF r.dom[1] = "F" THEN "F" ELSE "T"      \* bool(domain_processed[0])

\* the comparison of one filter: "T", "F", or the exception it raises
Compare(field_value, e) ==
    LET val == CHOOSE x \in e.v : TRUE
        \* Python orders two ints, two strs or two datetimes; None is not ordered
        Ordered == field_value[1] = val[1] /\ field_value # None
        B(b) == IF b THEN "T" ELSE "F"
    IN  CASE e.eq = "=" -> B(field_value = val)
          [] e.eq = "!=" -> B(field_value # val)
          [] e.eq = "in" -> IF e.vlist THEN B(field_value \in e.v) ELSE "TypeError"
          [] e.eq = "not in" -> IF e.vlist THEN B(field_value \notin e.v) ELSE "TypeError"
          [] e.eq = ">" -> IF Ordered THEN B(field_value[2] > val[2]) ELSE "TypeError"
          [] e.eq = ">=" -> IF Ordered THEN B(field_value[2] >= val[2]) ELSE "TypeError"
          [] e.eq = "<" -> IF Ordered THEN B(field_value[2] < val[2]) ELSE "TypeError"
          [] e.eq = "<=" -> IF Ordered THEN B(field_value[2] <= val[2]) ELSE "TypeError"
          [] OTHER -> "FsdbError"

---------------------------------------------------------------------------
(* Cache (cache.py).  A cache state is the record                          *)
(* [cache, table, access_list, cache_size, cache_size_limit].              *)

\* sys.getsizeof of a dict with n entries (CPython 3.11, 64-bit)
DictSizeOf(n) == IF n = 0 THEN 64 ELSE IF n <= 5 THEN 184 ELSE IF n <= 10 THEN 272 ELSE 464

GetSizeOf(d) == DictSizeOf(Cardinality(DOMAIN d))

\* The dict Cache.cache is filled and emptied in place, and CPython does not shrink a
\* dict when a key is deleted: its hash table has `size` slots (0: the table all new
\* dicts share), of which USABLE_FRACTION(size) can hold entries, and `nentries` of
\* those are used up, by live and by deleted keys alike.
NewDict == [size |-> 0, nentries |-> 0]

\* USABLE_FRACTION
UsableFraction(size) == (2 * size) \div 3

\* the smallest power of two above x, from p on
RECURSIVE PowerOfTwoAbove(_, _)
PowerOfTwoAbove(x, p) == IF p > x THEN p ELSE PowerOfTwoAbove(x, 2 * p)

\* calculate_log2_keysize: 2 ** bit_length(((minsize | 8) - 1) | 7)
KeySize(minsize) ==
    LET m == (IF (minsize \div 8) % 2 = 1 THEN minsize ELSE minsize + 8) - 1
    IN  PowerOfTwoAbove(m - (m % 8) + 7, 1)

\* d[key] = value on a dict of `used` keys: a new key takes an entry, and when none is
\* left the table is rebuilt for GROWTH_RATE = used * 3 keys
DictSetItem(table, used, new_key) ==
    IF ~new_key THEN table
    ELSE IF table.size = 0 THEN [size |-> 8, nentries |-> 1]
    ELSE IF table.nentries >= UsableFraction(table.size)
    THEN [size |-> KeySize(used * 3), nentries |-> used + 1]
    ELSE [table EXCEPT !.nentries = @ + 1]

\* sys.getsizeof of a dict of str keys with that table (CPython 3.11, 64-bit)
TableSizeOf(table) ==
    CASE table.size = 0 -> 64
      [] table.size = 8 -> 184
      [] table.size = 16 -> 272
      [] table.size = 32 -> 464
      [] OTHER -> 832

\* Cache.__init__'s default cache_size: 100*(1024**2)
DefaultCacheSize == 100 * (1024 * 1024)

\* Cache.set_cache_size without a limit: int(cache_size * 1.5)
DefaultLimit(size) == (3 * size) \div 2

CacheState == [cache |-> cache, table |-> cache_table, access_list |-> access_list,
               cache_size |-> cache_size, cache_size_limit |-> cache_size_limit]

\* Cache.del_cache
del_cache(c, key) ==
    IF key \in DOMAIN c.cache
    THEN [c EXCEPT !.access_list = RemoveFirst(c.access_list, key),
                   !.cache = DictRemove(c.cache, key)]
    ELSE c

\* the eviction loop of Cache.to_cache
RECURSIVE CacheEvict(_)
CacheEvict(c) ==
    IF TableSizeOf(c.table) > c.cache_size /\ Len(c.access_list) > 0
    THEN CacheEvict(del_cache(c, c.access_list[1]))
    ELSE c

\* lines 31-36 without the removal of lines 34-35: the key is appended to the access
\* list whether it is there or not
CacheSetItemKeepOld(c, key, value) ==
    [c EXCEPT !.cache = (key :> value) @@ c.cache,
              !.table = DictSetItem(c.table, Cardinality(DOMAIN c.cache),
                                    key \notin DOMAIN c.cache),
              !.access_list = Append(c.access_list, key)]

\* Cache.to_cache, lines 31-36: the value is set and the key becomes the most recently
\* used
CacheSetItem(c, key, value) ==
    [c EXCEPT !.cache = (key :> value) @@ c.cache,
              !.table = DictSetItem(c.table, Cardinality(DOMAIN c.cache),
                                    key \notin DOMAIN c.cache),
              !.access_list = Append(RemoveFirst(c.access_list, key), key)]

\* Cache.to_cache, line 38: the put starts the eviction loop
Evicts(c, key, value) ==
    /\ GetSizeOf(value) <= c.cache_size
    /\ TableSizeOf(CacheSetItem(c, key, value).table) > c.cache_size_limit

\* Cache.to_cache without the test of lines 29-30
ToCacheAnySize(c, key, value) ==
    IF TableSizeOf(CacheSetItem(c, key, value).table) > c.cache_size_limit
    THEN CacheEvict(CacheSetItem(c, key, value))
    ELSE CacheSetItem(c, key, value)

\* Cache.to_cache
to_cache(c, key, value) ==
    IF GetSizeOf(value) > c.cache_size THEN c
    ELSE IF Evicts(c, key, value) THEN CacheEvict(CacheSetItem(c, key, value))
    ELSE CacheSetItem(c, key, value)

\* Cache.set_cache_size; limit 0 stands for a call without cache_size_limit
set_cache_size(c, size, limit) ==
    [c EXCEPT !.cache_size = size,
              !.cache_size_limit = IF limit # 0 THEN (IF size > limit THEN size ELSE limit)
                                   ELSE DefaultLimit(size)]

\* Cache.from_cache: the cache after the access, and whether the key was found
from_cache(c, key) ==
    IF key \in DOMAIN c.cache
    THEN [c |-> [c EXCEPT !.access_list = Append(RemoveFirst(c.access_list, key), key)],
          hit |-> TRUE, value |-> c.cache[key]]
    ELSE [c |-> c, hit |-> FALSE, value |-> EmptyDict]

\* Cache.clear
cache_clear(c) == [c EXCEPT !.cache = EmptyDict, !.table = NewDict, !.access_list = <<>>]

---------------------------------------------------------------------------
(* Record (record.py)                                                      *)

\* Record.index_str: the record's directory name
IndexStr(index) == val2str(FieldType.id, IntVal(index))

\* "{}-{}".format(table.name, index_str)
CacheKey(table_name, index_str) == table_name \o "-" \o index_str

\* Record.get_cache_key
get_cache_key(index) == CacheKey(TableName, IndexStr(index))

\* the dict json.dumps writes for `values`, read back by json.loads
JsonDict(values) == [k \in DOMAIN values |-> JsonRoundTrip(values[k])]

\* Record.save_values: the content of data.json
save_values(values) == JsonDict(DictMerge([k \in FieldNames |-> None], values))

\* Record.load_values on the content of data.json
load_values(data) == DictMerge([k \in FieldNames |-> None], data)

\* the value Record.read makes of a data.json value, by field type
ReadConvert(type, x) ==
    IF x = None THEN None
    ELSE CASE type = "int" -> IntVal(x[2])
           [] type = "tuple" -> <<"tuple", x[2]>>
           [] type = "datetime" -> str2val(type, x)
           [] OTHER -> x

\* the value Record.write puts into data_values, by field type
WriteConvert(type, x) ==
    IF type = "datetime" /\ x # None THEN val2str(type, x) ELSE x

\* Record.read's removal of invalid names, a list.remove inside the loop over the list
RECURSIVE RemoveInvalid(_, _)
RemoveInvalid(names, i) ==
    IF i > Len(names) THEN names
    ELSE IF names[i] \notin FieldNames THEN RemoveInvalid(RemoveFirst(names, names[i]), i + 1)
    ELSE RemoveInvalid(names, i + 1)

\* the names of a sequence that satisfy a test, in order
RECURSIVE SelectNotIn(_, _)
SelectNotIn(names, keys) ==
    IF names = <<>> THEN <<>>
    ELSE IF Head(names) \in keys THEN SelectNotIn(Tail(names), keys)
    ELSE <<Head(names)>> \o SelectNotIn(Tail(names), keys)

\* list(self.fields.keys()): Table.load_data inserts the fields in data.json's order,
\* which Table.save_data sorts by name
AllFieldNames ==
    SelectSeq(<<"create_datetime", "id", "modify_datetime", "val1", "val2", "val3">>,
              LAMBDA name : name \in fields)

\* Record.read.  field_names is [all |-> BOOLEAN, names |-> list]; rids is
\* table.record_ids; dsk is the table directory.  Returns the cache state, the
\* outcome and the dict returned.
RecordRead(c, dsk, rids, index, field_names) ==
    LET names == IF field_names.all THEN AllFieldNames ELSE RemoveInvalid(field_names.names, 1)
        key == get_cache_key(index)
        fc == from_cache(c, key)
        aliased == fc.hit /\ fc.value # EmptyDict    \* `or {}` replaces an empty dict
        values == fc.value
        todo == SelectNotIn(names, DOMAIN values)
        bad == {i \in 1..Len(todo) : todo[i] \notin FieldNames}
        firstBad == IF bad = {} THEN Len(todo) + 1 ELSE CHOOSE i \in bad : \A j \in bad : i <= j
        Indexed(name) == FieldIndex(name) /\ FieldIndexBuild(name)
        idAt == {i \in 1..(firstBad - 1) : Indexed(todo[i])}
        idFound == index \in Range(rids)
        \* the index loop: the id field is answered by Field.get_value_from_index
        v1 == IF idAt # {} /\ idFound THEN ("id" :> IntVal(index)) @@ values ELSE values
        inPlace(vals) == IF aliased THEN [fc.c EXCEPT !.cache[key] = vals] ELSE fc.c
        rest == SelectNotIn(todo, {name \in FieldNames : Indexed(name)})
        dirname == IndexStr(index)
        data == load_values(dsk[dirname])
        v2 == [k \in Range(rest) |-> ReadConvert(FieldType[k], data[k])] @@ v1
    IN  IF Len(todo) = 0
        THEN [c |-> fc.c, out |-> "ok", vals |-> DictRestrict(values, Range(names))]
        ELSE IF idAt # {} /\ ~idFound
        THEN [c |-> fc.c, out |-> "FsdbObjectNotFound", vals |-> EmptyDict]
        ELSE IF bad # {}
        THEN [c |-> inPlace(v1), out |-> "KeyError", vals |-> EmptyDict]
        ELSE IF Len(rest) > 0 /\ dirname \notin DOMAIN dsk
        THEN [c |-> inPlace(v1), out |-> "FileNotFoundError", vals |-> EmptyDict]
        ELSE [c |-> to_cache(inPlace(v2), key, v2), out |-> "ok",
              vals |-> DictRestrict(v2, Range(names))]

\* Record.write without the check of lines 92-93: the id is written like any field
RecordWriteNoIdCheck(c, dsk, index, values) ==
    LET key == get_cache_key(index)
        dirname == IndexStr(index)
        data_values == [k \in DOMAIN values |-> WriteConvert(FieldType[k], values[k])]
                       @@ load_values(dsk[dirname])
        fc == from_cache(c, key)
    IN  IF \E name \in DOMAIN values : name \notin FieldNames
        THEN [c |-> c, disk |-> dsk, out |-> "RuntimeError"]
        ELSE IF values # EmptyDict /\ dirname \notin DOMAIN dsk
        THEN [c |-> c, disk |-> dsk, out |-> "FileNotFoundError"]
        ELSE IF \E name \in DOMAIN values : data_values[name] = "TypeError"
        THEN [c |-> c, disk |-> dsk, out |-> "TypeError"]
        ELSE [c |-> to_cache(fc.c, key, DictMerge(fc.value, values)),
              disk |-> IF values = EmptyDict THEN dsk
                       ELSE (dirname :> save_values(data_values)) @@ dsk,
              out |-> "ok"]

\* Record.write with a modification stamp: every write that saves data.json puts a
\* modify_datetime other than the one stored
RecordWriteStamped(c, dsk, index, values) ==
    LET key == get_cache_key(index)
        dirname == IndexStr(index)
        loaded == load_values(dsk[dirname])
        stamp == IF loaded["modify_datetime"] = None THEN <<"str_datetime", 1>> ELSE None
        data_values == [k \in DOMAIN values |-> WriteConvert(FieldType[k], values[k])]
                       @@ ("modify_datetime" :> stamp) @@ loaded
        fc == from_cache(c, key)
    IN  IF "id" \in DOMAIN values
        THEN [c |-> c, disk |-> dsk, out |-> "FsdbError"]
        ELSE IF \E name \in DOMAIN values : name \notin FieldNames
        THEN [c |-> c, disk |-> dsk, out |-> "RuntimeError"]
        ELSE IF values # EmptyDict /\ dirname \notin DOMAIN dsk
        THEN [c |-> c, disk |-> dsk, out |-> "FileNotFoundError"]
        ELSE IF \E name \in DOMAIN values : data_values[name] = "TypeError"
        THEN [c |-> c, disk |-> dsk, out |-> "TypeError"]
        ELSE [c |-> to_cache(fc.c, key, DictMerge(fc.value, values)),
              disk |-> IF values = EmptyDict THEN dsk
                       ELSE (dirname :> save_values(data_values)) @@ dsk,
              out |-> "ok"]

\* Record.write.  Returns the cache state, the table directory and the outcome.
RecordWrite(c, dsk, index, values) ==
    LET key == get_cache_key(index)
        dirname == IndexStr(index)
        data_values == [k \in DOMAIN values |-> WriteConvert(FieldType[k], values[k])]
                       @@ load_values(dsk[dirname])
        fc == from_cache(c, key)
    IN  IF "id" \in DOMAIN values
        THEN [c |-> c, disk |-> dsk, out |-> "FsdbError"]
        ELSE IF \E name \in DOMAIN values : name \notin FieldNames
        THEN [c |-> c, disk |-> dsk, out |-> "RuntimeError"]  \* del inside the loop over the dict
        ELSE IF values # EmptyDict /\ dirname \notin DOMAIN dsk
        THEN [c |-> c, disk |-> dsk, out |-> "FileNotFoundError"]
        ELSE IF \E name \in DOMAIN values : data_values[name] = "TypeError"
        THEN [c |-> c, disk |-> dsk, out |-> "TypeError"]     \* val2str of the value
        ELSE [c |-> to_cache(fc.c, key, DictMerge(fc.value, values)),
              disk |-> IF values = EmptyDict THEN dsk
                       ELSE (dirname :> save_values(data_values)) @@ dsk,
              out |-> "ok"]

\* Table.get_new_id for an int id
get_new_id(rids) ==
    IF Len(rids) > 0 THEN (CHOOSE m \in Range(rids) : \A x \in Range(rids) : x <= m) + 1 ELSE 1

\* Record.create without the check of lines 67-68: the directory of an existing record
\* is reused and written to
RecordCreateNoUniqueCheck(c, dsk, rids, values) ==
    LET index == IF "id" \in DOMAIN values THEN values.id[2] ELSE get_new_id(rids)
        rest == [k \in (DOMAIN values) \ {"id"} |-> values[k]]
        dirname == IndexStr(index)
        made == IF dirname \in DOMAIN dsk THEN dsk
                ELSE (dirname :> save_values("id" :> IntVal(index))) @@ dsk
        w == RecordWrite(c, made, index, rest)
    IN  [c |-> w.c, disk |-> w.disk, out |-> w.out, index |-> index]

\* Record.create.  Returns the cache state, the table directory, the outcome and the
\* new record's index.
RecordCreate(c, dsk, rids, values) ==
    LET index == IF "id" \in DOMAIN values THEN values.id[2] ELSE get_new_id(rids)
        rest == [k \in (DOMAIN values) \ {"id"} |-> values[k]]
        dirname == IndexStr(index)
        made == (dirname :> save_values("id" :> IntVal(index))) @@ dsk
        w == RecordWrite(c, made, index, rest)
    IN  IF dirname \in DOMAIN dsk
        THEN [c |-> c, disk |-> dsk, out |-> "FsdbError", index |-> index]
        ELSE [c |-> w.c, disk |-> w.disk, out |-> w.out, index |-> index]

\* Record.delete without the del_cache of lines 188-189
RecordDeleteKeepCache(c, dsk, index) ==
    LET dirname == IndexStr(index)
    IN  IF dirname \notin DOMAIN dsk
        THEN [c |-> c, disk |-> dsk, out |-> "FileNotFoundError"]
        ELSE [c |-> c, disk |-> DictRemove(dsk, dirname), out |-> "ok"]

\* Record.delete.  Returns the cache state, the table directory and the outcome.
RecordDelete(c, dsk, index) ==
    LET dirname == IndexStr(index)
        c1 == del_cache(c, get_cache_key(index))
    IN  IF dirname \notin DOMAIN dsk
        THEN [c |-> c1, disk |-> dsk, out |-> "FileNotFoundError"]     \* shutil.rmtree
        ELSE [c |-> c1, disk |-> DictRemove(dsk, dirname), out |-> "ok"]

---------------------------------------------------------------------------
(* Search (table.py, database.py, manager.py)                              *)

\* the processed domain of one record: every filter is replaced by the result of its
\* comparison.  read_id: Database.search and Manager.search_records read the id like any
\* field, Table.search_records takes it from record_ids.
RECURSIVE ProcessDomain(_, _, _, _, _, _, _)

\* one filter e of the domain: rd is the Record.read of its field, direct tells that
\* the value is the rid of the loop
ProcessFilter(c, dsk, rids, rid, items, read_id, dp, e, direct, rd) ==
    LET field_value == IF direct THEN IntVal(rid) ELSE rd.vals[e.f]
        cmp == Compare(field_value, e)
    IN  IF ~direct /\ rd.out # "ok" THEN [c |-> rd.c, out |-> rd.out, dp |-> dp]
        ELSE IF ~direct /\ e.f \notin DOMAIN rd.vals
        THEN [c |-> rd.c, out |-> "KeyError", dp |-> dp]
        ELSE IF ~IsBool(cmp) THEN [c |-> IF direct THEN c ELSE rd.c, out |-> cmp, dp |-> dp]
        ELSE ProcessDomain(IF direct THEN c ELSE rd.c, dsk, rids, rid, Tail(items), read_id,
                           Append(dp, cmp))

ProcessDomain(c, dsk, rids, rid, items, read_id, dp) ==
    IF items = <<>> THEN [c |-> c, out |-> "ok", dp |-> dp]
    ELSE IF Head(items).k = "str"
    THEN ProcessDomain(c, dsk, rids, rid, Tail(items), read_id, Append(dp, Head(items).tok))
    ELSE ProcessFilter(c, dsk, rids, rid, items, read_id, dp, Head(items),
                       Head(items).f = "id" /\ ~read_id,
                       RecordRead(c, dsk, rids, rid,
                                  [all |-> FALSE, names |-> <<Head(items).f>>]))

\* the loop over record_ids
RECURSIVE SearchLoop(_, _, _, _, _, _, _, _)

\* one record of the loop: p is its processed domain, result the reduction of it
SearchStep(dsk, rids, todo, items, limit, read_id, found, p, result) ==
    IF p.out # "ok" THEN [c |-> p.c, out |-> p.out, ids |-> <<>>]
    ELSE IF result = "FsdbError" THEN [c |-> p.c, out |-> "FsdbError", ids |-> <<>>]
    ELSE SearchLoop(p.c, dsk, rids, Tail(todo), items, limit, read_id,
                    IF result = "T" THEN Append(found, Head(todo)) ELSE found)

\* the loop over record_ids with the test of the limit off by one
SearchLoopOneMore(c, dsk, rids, todo, items, limit, read_id, found) ==
    IF todo = <<>> \/ (limit > 0 /\ Len(found) > limit)
    THEN [c |-> c, out |-> "ok", ids |-> found]
    ELSE SearchStep(dsk, rids, todo, items, limit, read_id, found,
                    ProcessDomain(c, dsk, rids, Head(todo), items, read_id, <<>>),
                    SearchEvaluate(ProcessDomain(c, dsk, rids, Head(todo), items, read_id, <<>>).dp))

SearchLoop(c, dsk, rids, todo, items, limit, read_id, found) ==
    IF todo = <<>> \/ (limit > 0 /\ Len(found) >= limit)
    THEN [c |-> c, out |-> "ok", ids |-> found]
    ELSE SearchStep(dsk, rids, todo, items, limit, read_id, found,
                    ProcessDomain(c, dsk, rids, Head(todo), items, read_id, <<>>),
                    SearchEvaluate(ProcessDomain(c, dsk, rids, Head(todo), items, read_id, <<>>).dp))

\* search_records(domain, limit); limit = 0 stands for None.  Returns the cache state,
\* the outcome and the ids of the records returned.
SearchRecords(c, dsk, rids, domain, limit, read_id) ==
    LET items == domain.items
        \* the validation loop: its errors are built but not raised; only the
        \* unpacking `dom_field, dom_eq, dom_value = tuple(dom)` can raise
        bad == {i \in 1..Len(items) : items[i].k # "str" /\ (items[i].k # "tuple" \/ items[i].n # 3)}
        firstBad == CHOOSE i \in bad : \A j \in bad : i <= j
    IN  IF bad # {}
        THEN [c |-> c, out |-> IF items[firstBad].k = "tuple" THEN "ValueError" ELSE "TypeError",
              ids |-> <<>>]
        ELSE IF Len(items) = 0
        THEN [c |-> c, out |-> "ok",
              ids |-> IF limit > 0 /\ limit < Len(rids) THEN SubSeq(rids, 1, limit) ELSE rids]
        ELSE SearchLoop(c, dsk, rids, rids, items, limit, read_id, <<>>)

\* Table.search_records
TableSearch(c, dsk, rids, domain, limit) == SearchRecords(c, dsk, rids, domain, limit, FALSE)

\* Database.search / Manager.search_records
DatabaseSearch(c, dsk, rids, domain, limit) == SearchRecords(c, dsk, rids, domain, limit, TRUE)

\* the loop of Database.delete / Manager.delete_records over the records found
RECURSIVE DeleteLoop(_, _, _, _)

\* one record of the loop: rids1 is record_ids without its id, d its Record.delete
DeleteStep(todo, rids1, d) ==
    IF d.out # "ok" THEN [c |-> d.c, disk |-> d.disk, rids |-> rids1, out |-> d.out]
    ELSE DeleteLoop(d.c, d.disk, rids1, Tail(todo))

DeleteLoop(c, dsk, rids, todo) ==
    IF todo = <<>> THEN [c |-> c, disk |-> dsk, rids |-> rids, out |-> "ok"]
    ELSE DeleteStep(todo, RemoveFirst(rids, Head(todo)), RecordDelete(c, dsk, Head(todo)))

---------------------------------------------------------------------------
(* Access guards (__getattribute__)                                        *)

\* a Record object held by the caller
Handle(index, deleted) == [index |-> index, deleted |-> deleted]

\* Record.__getattribute__: the FsdbError is built, not raised, and the method
\* falls off its end
RecordGetAttr(h) == IF table_deleted \/ h.deleted THEN "None" ELSE "value"

\* Table.__getattribute__
TableGetAttr ==
    IF table_deleted THEN "FsdbObjectDeleted"
    ELSE IF closed THEN "FsdbDatabaseClosed"
    ELSE "value"

\* the guard of the Database handle
DatabaseGetAttr == IF closed THEN "FsdbDatabaseClosed" ELSE "value"

\* a method of a live record of an open database can run
Usable(h) == h \in handles /\ RecordGetAttr(h) = "value" /\ TableGetAttr = "value"

\* the database is open and holds the table
TableOpen == table_on_disk /\ TableGetAttr = "value"

---------------------------------------------------------------------------
(* Inputs *)

\* the dicts a caller passes to write and create
ValueDicts ==
    {EmptyDict, ("val1" :> <<"str", 1>>), ("val1" :> <<"str", 2>>), ("val2" :> <<"datetime", 1>>),
     ("val3" :> <<"tuple", 1>>), ("val2" :> <<"datetime", 1>>) @@ ("val3" :> <<"tuple", 1>>)}

WriteInputs ==
    ValueDicts \cup {("nofield" :> <<"str", 1>>), ("id" :> IntVal(1))}

CreateInputs ==
    {EmptyDict, ("val1" :> <<"str", 1>>), ("id" :> IntVal(1)), ("nofield" :> <<"str", 1>>),
     ("val2" :> <<"str", 1>>)}

ReadInputs ==
    {[all |-> TRUE, names |-> <<>>]}
    \cup {[all |-> FALSE, names |-> n] :
            n \in {<<"val1">>, <<"id">>, <<"nofield">>, <<"nofield", "nofield2", "val1">>}}

\* the domains searched in the record lifecycle
IdDomains == {ListDomain(<<>>)} \cup {ListDomain(<<Filter("id", "=", IntVal(i))>>) : i \in Ids}

CacheSizeInputs == {200}

---------------------------------------------------------------------------
(* The database after construction: open, the table created and empty *)

Init ==
    /\ disk = EmptyDict
    /\ table_on_disk = TRUE
    /\ record_ids = <<>>
    /\ table_deleted = FALSE
    /\ closed = FALSE
    /\ cache = EmptyDict
    /\ cache_table = NewDict
    /\ access_list = <<>>
    /\ cache_size = DefaultCacheSize
    /\ cache_size_limit = DefaultLimit(DefaultCacheSize)
    /\ handles = {}
    /\ written = EmptyDict
    /\ fields = DOMAIN FieldType
    /\ files = EmptyDict
    /\ root = {DbName}
    /\ tables = EmptyDict
    /\ last = [op |-> "init"]

SetCache(c) ==
    /\ c.table.nentries <= MaxEntries
    /\ cache' = c.cache
    /\ cache_table' = c.table
    /\ access_list' = c.access_list
    /\ cache_size' = c.cache_size
    /\ cache_size_limit' = c.cache_size_limit

\* the values last written to the records by the calls that returned: None until a
\* value is written
WrittenAfterCreate(r, values) ==
    IF r.out # "ok" THEN written
    ELSE (r.index :> [k \in UserFields |-> IF k \in DOMAIN values THEN values[k] ELSE None])
         @@ written

\* Database.create: Record.create, then the id is appended to record_ids.  ids bounds
\* the ids of the table.
DatabaseCreate(values, ids) ==
    /\ TableOpen
    /\ LET r == RecordCreate(CacheState, disk, record_ids, values)
       IN  /\ r.index \in ids
           /\ SetCache(r.c)
           /\ disk' = r.disk
           /\ record_ids' = IF r.out = "ok" /\ r.index \notin Range(record_ids)
                            THEN Append(record_ids, r.index) ELSE record_ids
           /\ handles' = IF r.out = "ok" THEN handles \cup {Handle(r.index, FALSE)} ELSE handles
           /\ written' = WrittenAfterCreate(r, values)
           /\ last' = [op |-> "create", via |-> "Database", out |-> r.out, index |-> r.index,
                       values |-> values]
    /\ UNCHANGED <<table_on_disk, table_deleted, closed>>
    /\ UNCHANGED <<fields, files, root, tables>>

DbCreate(values) == DatabaseCreate(values, Ids)

\* Manager.create_records: Record.create
MgrCreate(values) ==
    /\ TableOpen
    /\ LET r == RecordCreate(CacheState, disk, record_ids, values)
       IN  /\ r.index \in Ids
           /\ SetCache(r.c)
           /\ disk' = r.disk
           /\ handles' = IF r.out = "ok" THEN handles \cup {Handle(r.index, FALSE)} ELSE handles
           /\ written' = WrittenAfterCreate(r, values)
           /\ last' = [op |-> "create", via |-> "Manager", out |-> r.out, index |-> r.index,
                       values |-> values]
    /\ UNCHANGED <<record_ids, table_on_disk, table_deleted, closed>>
    /\ UNCHANGED <<fields, files, root, tables>>

\* Table.browse_records(id): a Record for an id of record_ids, else None
Browse(index) ==
    /\ TableOpen
    /\ handles' = IF index \in Range(record_ids) THEN handles \cup {Handle(index, FALSE)}
                  ELSE handles
    /\ last' = [op |-> "browse", index |-> index,
                out |-> IF index \in Range(record_ids) THEN "record" ELSE "None"]
    /\ UNCHANGED <<disk, table_on_disk, record_ids, table_deleted, closed, cache, cache_table, access_list,
                   cache_size, cache_size_limit, written>>
    /\ UNCHANGED <<fields, files, root, tables>>

\* Record.write
RecWrite(h, values) ==
    /\ Usable(h)
    /\ LET w == RecordWrite(CacheState, disk, h.index, values)
       IN  /\ SetCache(w.c)
           /\ disk' = w.disk
           /\ written' = IF w.out = "ok" /\ values # EmptyDict
                         THEN (h.index :> (values @@ (IF h.index \in DOMAIN written
                                                      THEN written[h.index]
                                                      ELSE [k \in UserFields |-> None])))
                              @@ written
                         ELSE written
           /\ last' = [op |-> "write", out |-> w.out, index |-> h.index, vals |-> values]
    /\ UNCHANGED <<table_on_disk, record_ids, table_deleted, closed, handles>>
    /\ UNCHANGED <<fields, files, root, tables>>

\* Record.read
RecRead(h, field_names) ==
    /\ Usable(h)
    /\ LET r == RecordRead(CacheState, disk, record_ids, h.index, field_names)
       IN  /\ SetCache(r.c)
           /\ last' = [op |-> "read", out |-> r.out, index |-> h.index, vals |-> r.vals,
                       req |-> field_names]
    /\ UNCHANGED <<disk, table_on_disk, record_ids, table_deleted, closed, handles, written>>
    /\ UNCHANGED <<fields, files, root, tables>>

\* Record.delete.  Another Record object of the same id, from an earlier browse or
\* search, may stay with the caller.
RecDelete(h) ==
    /\ Usable(h)
    /\ LET d == RecordDelete(CacheState, disk, h.index)
       IN  /\ SetCache(d.c)
           /\ disk' = d.disk
           /\ \E other \in BOOLEAN :
                handles' = IF d.out # "ok" THEN handles
                           ELSE (IF other THEN handles ELSE handles \ {h})
                                \cup {Handle(h.index, TRUE)}
           /\ written' = IF d.out = "ok" THEN DictRemove(written, h.index) ELSE written
           /\ last' = [op |-> "delete", via |-> "Record", out |-> d.out, index |-> h.index]
    /\ UNCHANGED <<table_on_disk, record_ids, table_deleted, closed>>
    /\ UNCHANGED <<fields, files, root, tables>>

\* Database.delete / Manager.delete_records: search, then for each record found the id
\* leaves record_ids and Record.delete runs
DbDelete(domain) ==
    /\ TableOpen
    /\ LET s == DatabaseSearch(CacheState, disk, record_ids, domain, 0)
           d == DeleteLoop(s.c, disk, record_ids, s.ids)
       IN  IF s.out # "ok"
           THEN /\ SetCache(s.c)
                /\ UNCHANGED <<disk, record_ids, written>>
                /\ last' = [op |-> "delete", via |-> "Database", out |-> s.out, index |-> 0]
           ELSE /\ SetCache(d.c)
                /\ disk' = d.disk
                /\ record_ids' = d.rids
                /\ written' = [i \in {j \in DOMAIN written : IndexStr(j) \in DOMAIN d.disk}
                                 |-> written[i]]
                /\ last' = [op |-> "delete", via |-> "Database", out |-> d.out, index |-> 0]
    /\ UNCHANGED <<table_on_disk, table_deleted, closed, handles>>
    /\ UNCHANGED <<fields, files, root, tables>>

\* Cache.set_cache_size(cache_size)
SetCacheSize(size) ==
    /\ ~closed
    /\ cache_size' = size
    /\ cache_size_limit' = DefaultLimit(size)
    /\ last' = [op |-> "set_cache_size"]
    /\ UNCHANGED <<disk, table_on_disk, record_ids, table_deleted, closed, cache, cache_table, access_list,
                   handles, written>>
    /\ UNCHANGED <<fields, files, root, tables>>

\* the domains searched in the record lifecycle through Table.search_records
SearchInputs ==
    IdDomains
    \cup {ListDomain(<<Filter("val1", "=", <<"str", 1>>)>>),
          ListDomain(<<Filter("nofield", "=", <<"str", 1>>)>>),
          ListDomain(<<Tok("&")>>),
          ListDomain(<<Tok("x")>>),
          ListDomain(<<Filter("id", "in", IntVal(1))>>),
          Domain("tuple", <<Filter("id", "=", IntVal(1))>>)}

\* Table.search_records(domain)
Search(domain) ==
    /\ TableOpen
    /\ LET s == TableSearch(CacheState, disk, record_ids, domain, 0)
       IN  /\ SetCache(s.c)
           /\ last' = [op |-> "search", out |-> s.out, domain |-> domain, ids |-> s.ids]
    /\ UNCHANGED <<disk, table_on_disk, record_ids, table_deleted, closed, handles, written>>
    /\ UNCHANGED <<fields, files, root, tables>>

\* Table.delete
TableDelete ==
    /\ TableOpen
    /\ SetCache(cache_clear(CacheState))
    /\ disk' = EmptyDict
    /\ table_on_disk' = FALSE
    /\ table_deleted' = TRUE
    /\ written' = EmptyDict
    /\ last' = [op |-> "delete", via |-> "Table", out |-> "ok", index |-> 0]
    /\ UNCHANGED <<record_ids, closed, handles>>
    /\ UNCHANGED <<fields, files, root, tables>>

\* closing the database sets Database._closed
Close ==
    /\ ~closed
    /\ closed' = TRUE
    /\ last' = [op |-> "close"]
    /\ UNCHANGED <<disk, table_on_disk, record_ids, table_deleted, cache, cache_table, access_list,
                   cache_size, cache_size_limit, handles, written>>
    /\ UNCHANGED <<fields, files, root, tables>>

\* the orders os.listdir can give the record directories in
Orders(S) == {s \in [1..Cardinality(S) -> S] : \A i, j \in 1..Cardinality(S) : s[i] = s[j] => i = j}

\* Table.load_record_ids: the id of every record directory, in os.listdir's order
load_record_ids == Orders({str2val(FieldType.id, d)[2] : d \in DOMAIN disk})

\* Manager.open_database after a close: a new Database with a new Cache, its Table
\* loaded from the table directory.  The objects of the closed Database stay closed
\* and are not followed further.
Open ==
    /\ closed
    /\ closed' = FALSE
    /\ SetCache([cache |-> EmptyDict, table |-> NewDict, access_list |-> <<>>,
                 cache_size |-> DefaultCacheSize,
                 cache_size_limit |-> DefaultLimit(DefaultCacheSize)])
    /\ IF table_on_disk
       THEN record_ids' \in load_record_ids /\ table_deleted' = FALSE
       ELSE UNCHANGED <<record_ids, table_deleted>>
    /\ handles' = {}
    /\ last' = [op |-> "open", before |-> Range(record_ids)]  \* record_ids is as the close left it
    /\ UNCHANGED <<disk, table_on_disk, written>>
    /\ UNCHANGED <<fields, files, root, tables>>

\* reading an attribute of a Record object
AccessRecord(h) ==
    /\ h \in handles
    /\ last' = [op |-> "getattr", obj |-> "Record", out |-> RecordGetAttr(h), h |-> h]
    /\ UNCHANGED <<disk, table_on_disk, record_ids, table_deleted, closed, cache, cache_table, access_list,
                   cache_size, cache_size_limit, handles, written>>
    /\ UNCHANGED <<fields, files, root, tables>>

\* reading an attribute of the Table object
AccessTable ==
    /\ table_on_disk \/ table_deleted
    /\ last' = [op |-> "getattr", obj |-> "Table", out |-> TableGetAttr, h |-> Handle(0, FALSE)]
    /\ UNCHANGED <<disk, table_on_disk, record_ids, table_deleted, closed, cache, cache_table, access_list,
                   cache_size, cache_size_limit, handles, written>>
    /\ UNCHANGED <<fields, files, root, tables>>

\* reading an attribute of the Database object
AccessDatabase ==
    /\ last' = [op |-> "getattr", obj |-> "Database", out |-> DatabaseGetAttr, h |-> Handle(0, FALSE)]
    /\ UNCHANGED <<disk, table_on_disk, record_ids, table_deleted, closed, cache, cache_table, access_list,
                   cache_size, cache_size_limit, handles, written>>
    /\ UNCHANGED <<fields, files, root, tables>>

Next ==
    \/ \E values \in CreateInputs : DbCreate(values)
    \/ \E values \in CreateInputs : MgrCreate(values)
    \/ \E index \in Ids : Browse(index)
    \/ \E h \in handles, values \in WriteInputs : RecWrite(h, values)
    \/ \E h \in handles, field_names \in ReadInputs : RecRead(h, field_names)
    \/ \E h \in handles : RecDelete(h)
    \/ \E domain \in IdDomains : DbDelete(domain)
    \/ \E domain \in SearchInputs : Search(domain)
    \/ \E size \in CacheSizeInputs : SetCacheSize(size)
    \/ TableDelete
    \/ Close
    \/ Open
    \/ \E h \in handles : AccessRecord(h)
    \/ AccessTable
    \/ AccessDatabase

Spec == Init /\ [][Next]_vars

---------------------------------------------------------------------------
(* evaluate_domain applied to the processed domains of up to MaxDomainLen  *)
(* tokens: the booleans, the two operators and a str that is no operator   *)

Tokens == {"T", "F", "&", "|", "x"}

ProcessedDomains == UNION {[1..n -> Tokens] : n \in 0..MaxDomainLen}

Evaluate(d) ==
    /\ last' = [op |-> "evaluate_domain", domain |-> d, out |-> evaluate_domain(d)]
    /\ UNCHANGED <<disk, table_on_disk, record_ids, table_deleted, closed, cache, cache_table, access_list,
                   cache_size, cache_size_limit, handles, written>>
    /\ UNCHANGED <<fields, files, root, tables>>

NextDomain == \E d \in ProcessedDomains : Evaluate(d)

SpecDomain == Init /\ [][NextDomain]_vars

---------------------------------------------------------------------------
(* The properties checked                                                  *)

\* the ids of the record directories of the table directory
DirIds == {str2val(FieldType.id, d)[2] : d \in DOMAIN disk}

\* C1: while the table is loaded, when a create, a write or a delete returns, through
\* whichever entry point, the record directories are exactly the ids of record_ids
C1_DirsAreRecordIds ==
    (TableOpen /\ last.op \in {"create", "write", "delete"} /\ last.out = "ok")
        => DirIds = Range(record_ids)

\* C2: once the database is closed, reading an attribute of the database, of its
\* table or of a record handle of it raises FsdbDatabaseClosed
C2_ClosedAccessRaises ==
    (last.op = "getattr" /\ closed /\ ~table_deleted /\ ~last.h.deleted)
        => last.out = "FsdbDatabaseClosed"

\* C3: after a table or a record is deleted through a handle, reading an attribute of
\* that handle raises FsdbObjectDeleted: it returns neither a value nor None
C3_DeletedHandleRaises ==
    (/\ last.op = "getattr"
     /\ ~closed
     /\ \/ last.obj = "Record" /\ last.h.deleted
        \/ last.obj = "Table" /\ table_deleted)
        => last.out = "FsdbObjectDeleted"

\* C4: a record handle other than the one the delete went through, a second handle of
\* the deleted record's id or a handle of a record of a deleted table, raises
\* FsdbObjectDeleted when an attribute of it is read
C4_OtherHandleRaises ==
    (/\ last.op = "getattr"
     /\ ~closed
     /\ last.obj = "Record"
     /\ ~last.h.deleted
     /\ table_deleted \/ IndexStr(last.h.index) \notin DOMAIN disk)
        => last.out = "FsdbObjectDeleted"

\* C5: after a write returns, the cache has no entry under the record's key or its
\* entry maps every written field to the value written
C5_CacheAfterWrite ==
    (last.op = "write" /\ last.out = "ok")
        => \/ get_cache_key(last.index) \notin DOMAIN cache
           \/ \A f \in DOMAIN last.vals :
                /\ f \in DOMAIN cache[get_cache_key(last.index)]
                /\ cache[get_cache_key(last.index)][f] = last.vals[f]

\* C6: a read that follows a write of the same record returns, for every written
\* field it reads, the value written
C6_ReadAfterWrite ==
    [][(/\ last.op = "write" /\ last.out = "ok"
        /\ last'.op = "read" /\ last'.out = "ok"
        /\ last'.index = last.index)
           => \A f \in DOMAIN last.vals \cap DOMAIN last'.vals : last'.vals[f] = last.vals[f]]_vars

\* C7: after a close and a re-open, the search of the empty domain returns the set of
\* ids it returned before the close, and the reads return the values last written
C7_ReopenKeepsState ==
    (last.op = "open" /\ table_on_disk /\ DirIds \subseteq DOMAIN written)
        => /\ Range(TableSearch(CacheState, disk, record_ids, ListDomain(<<>>), 0).ids) = last.before
           /\ \A index \in Range(record_ids) :
                LET r == RecordRead(CacheState, disk, record_ids, index,
                                    [all |-> TRUE, names |-> <<>>])
                IN  /\ r.out = "ok"
                    /\ \A f \in UserFields : r.vals[f] = written[index][f]

\* the standard prefix evaluation of a processed domain from position i on: an
\* operator applies to the next two sub-results
RECURSIVE PrefixExpr(_, _)
PrefixExpr(d, i) ==
    IF i > Len(d) THEN [ok |-> FALSE, val |-> FALSE, next |-> i]
    ELSE IF d[i] \in {"T", "F"} THEN [ok |-> TRUE, val |-> d[i] = "T", next |-> i + 1]
    ELSE IF d[i] \in {"&", "|"}
    THEN LET a == PrefixExpr(d, i + 1)
             b == PrefixExpr(d, a.next)
         IN  IF ~a.ok \/ ~b.ok THEN [ok |-> FALSE, val |-> FALSE, next |-> i]
             ELSE [ok |-> TRUE, next |-> b.next,
                   val |-> IF d[i] = "&" THEN a.val /\ b.val ELSE a.val \/ b.val]
    ELSE [ok |-> FALSE, val |-> FALSE, next |-> i]

\* adjacent results without an operator are joined by "&"
RECURSIVE PrefixAll(_, _, _)
PrefixAll(d, i, acc) ==
    IF i > Len(d) THEN (IF acc THEN "T" ELSE "F")
    ELSE LET e == PrefixExpr(d, i)
         IN  IF e.ok THEN PrefixAll(d, e.next, acc /\ e.val) ELSE "Malformed"

PrefixValue(d) == PrefixAll(d, 1, TRUE)

\* the prefix value of a domain over the values last written to the record rid
Satisfies(rid, items) ==
    PrefixValue([i \in 1..Len(items) |->
                    IF items[i].k = "str" THEN items[i].tok
                    ELSE Compare(IF items[i].f = "id" THEN IntVal(rid)
                                 ELSE written[rid][items[i].f], items[i])])

\* C8: Table.search_records returns exactly the records of record_ids whose field
\* values satisfy the domain under the prefix evaluation, in the order of record_ids;
\* the empty domain returns all of them
C8_SearchReturnsSatisfying ==
    (/\ last.op = "search"
     /\ validate_domain(last.domain, FieldNames) = "ok"
     /\ \A rid \in Range(record_ids) :
            rid \in DOMAIN written /\ Satisfies(rid, last.domain.items) \in {"T", "F"})
        => /\ last.out = "ok"
           /\ last.ids = SelectSeq(record_ids, LAMBDA rid : Satisfies(rid, last.domain.items) = "T")

\* C9: on a well-formed processed domain, evaluate_domain returns the value of the
\* standard prefix evaluation
C9_EvaluateIsPrefix ==
    (last.op = "evaluate_domain" /\ PrefixValue(last.domain) \in {"T", "F"})
        => last.out = PrefixValue(last.domain)

\* C10: Table.search_records raises the domain error (an FsdbError) for a malformed domain, before
\* any record is evaluated
C10_SearchRejectsMalformed ==
    (last.op = "search" /\ validate_domain(last.domain, FieldNames) = "DomainError")
        => last.out \in {"DomainError", "FsdbError"}

\* C11: a create without an explicit id, whatever creates and deletes went before,
\* succeeds with an id that no record of the table has (every record directory being
\* that of a record a create returned)
C11_AutoCreateSucceeds ==
    (/\ last.op = "create"
     /\ DirIds \subseteq DOMAIN written
     /\ "id" \notin DOMAIN last.values
     /\ DOMAIN last.values \subseteq FieldNames)
        => last.out = "ok"

\* no id occurs twice in record_ids, and no two record directories stand for one id
UniqueIds ==
    /\ \A i, j \in 1..Len(record_ids) : record_ids[i] = record_ids[j] => i = j
    /\ \A d1, d2 \in DOMAIN disk : str2val("int", d1) = str2val("int", d2) => d1 = d2

---------------------------------------------------------------------------
(* Creates, writes and deletes on a table of up to MaxRecordId records     *)

RecordIds == 1..MaxRecordId

\* creates without an id and with each id, writes with and without the id
RecordCreateInputs ==
    {EmptyDict} \cup {("id" :> IntVal(i)) @@ ("val1" :> <<"str", 2>>) : i \in RecordIds}

RecordWriteInputs ==
    {("val1" :> <<"str", 1>>),
     ("id" :> IntVal(1)) @@ ("val1" :> <<"str", 2>>),
     ("val1" :> <<"str", 2>>) @@ ("id_str" :> <<"str", 1>>)}

NextRecords ==
    \/ \E values \in RecordCreateInputs : DatabaseCreate(values, RecordIds)
    \/ \E h \in handles, values \in RecordWriteInputs : RecWrite(h, values)
    \/ \E h \in handles : RecDelete(h)

SpecRecords == Init /\ [][NextRecords]_vars

\* C12: a create with an explicit id whose record directory exists fails with
\* FsdbError and leaves the table directory (every data.json), the cache and record_ids
\* as they were; record_ids never holds an id twice and no two directories share an id
C12_DuplicateCreateFails ==
    /\ []UniqueIds
    /\ [][(/\ last'.op = "create"
           /\ "id" \in DOMAIN last'.values
           /\ IndexStr(last'.values.id[2]) \in DOMAIN disk)
              => /\ last'.out = "FsdbError"
                 /\ disk' = disk
                 /\ cache' = cache
                 /\ access_list' = access_list
                 /\ cache_size' = cache_size
                 /\ record_ids' = record_ids]_vars

\* a create with the id of a record that exists and is cached has failed
C12_Witness ==
    /\ last.op = "create"
    /\ "id" \in DOMAIN last.values
    /\ last.out = "FsdbError"
    /\ IndexStr(last.values.id[2]) \in DOMAIN disk
    /\ get_cache_key(last.values.id[2]) \in DOMAIN cache
    /\ last.values.id[2] \in Range(record_ids)

\* the outcomes of an operation that are exceptions
Errors == {"FsdbError", "RuntimeError", "KeyError", "TypeError", "ValueError",
           "FileNotFoundError", "AttributeError"}

\* C13: a write whose values contain the key id or id_str raises, and every data.json,
\* the cache (entries, access order, size) and record_ids are as before the call
C13_WriteOfIdFails ==
    [][(/\ last'.op = "write"
        /\ ("id" \in DOMAIN last'.vals \/ "id_str" \in DOMAIN last'.vals))
           => /\ last'.out \in Errors
              /\ disk' = disk
              /\ cache' = cache
              /\ access_list' = access_list
              /\ cache_size' = cache_size
              /\ record_ids' = record_ids]_vars

\* a write of the id together with a new value of val1, to a record that is on disk and
\* in the cache, has failed
C13_Witness ==
    /\ last.op = "write"
    /\ {"id", "val1"} \subseteq DOMAIN last.vals
    /\ last.out = "FsdbError"
    /\ IndexStr(last.index) \in DOMAIN disk
    /\ get_cache_key(last.index) \in DOMAIN cache

\* the names of `names` that are fields of the table, in their order
RECURSIVE ValidNames(_)
ValidNames(names) ==
    IF names = <<>> THEN <<>>
    ELSE IF Head(names) \in FieldNames THEN <<Head(names)>> \o ValidNames(Tail(names))
    ELSE ValidNames(Tail(names))

\* C14: a write or a read of a usable record that is given unknown field names among
\* the names does not raise; the read returns exactly the valid names requested
C14_UnknownNamesDropped ==
    /\ (/\ last.op = "write"
        /\ DOMAIN last.vals \cap {"id", "id_str"} = {}
        /\ IndexStr(last.index) \in DOMAIN disk)
           => last.out = "ok"
    /\ (/\ last.op = "read"
        /\ ~last.req.all
        /\ IndexStr(last.index) \in DOMAIN disk)
           => /\ last.out = "ok"
              /\ DOMAIN last.vals = Range(ValidNames(last.req.names))

\* C16: a create that fails leaves the table as before the call: the record
\* directories with their data.json, and record_ids, are unchanged
C16_FailedCreateLeavesNothing ==
    [][(last'.op = "create" /\ last'.out # "ok")
          => /\ disk' = disk
             /\ record_ids' = record_ids]_vars

---------------------------------------------------------------------------
(* Records of a table whose field set changes: creates, writes and reads   *)
(* of the record lifecycle, and the change of the schema                   *)

\* the field sets of the table: all the fields, and the fields without val3
Schemas == {DOMAIN FieldType, (DOMAIN FieldType) \ {"val3"}}

\* Table.update, called by Database.update_table and Manager.update_table: the fields of
\* the table become those of the new schema; the records are left as they are
UpdateTable(schema) ==
    /\ TableOpen
    /\ fields' = schema
    /\ last' = [op |-> "update_table", schema |-> schema]
    /\ UNCHANGED <<disk, table_on_disk, record_ids, table_deleted, closed, cache, cache_table, access_list,
                   cache_size, cache_size_limit, handles, written, files>>
    /\ UNCHANGED <<root, tables>>

NextSchema ==
    \/ \E values \in ValueDicts : DbCreate(values)
    \/ \E h \in handles, values \in ValueDicts : RecWrite(h, values)
    \/ \E h \in handles, field_names \in ReadInputs : RecRead(h, field_names)
    \/ \E h \in handles : RecDelete(h)
    \/ \E schema \in Schemas : UpdateTable(schema)

SpecSchema == Init /\ [][NextSchema]_vars

\* C15: after a create, or a write of at least one value, that returned, the keys of
\* the record's data.json are exactly the names of the fields of the table
C15_DataKeysAreSchema ==
    (/\ last.op \in {"create", "write"}
     /\ last.out = "ok"
     /\ last.op = "write" => last.vals # EmptyDict
     /\ IndexStr(last.index) \in DOMAIN disk)
        => DOMAIN disk[IndexStr(last.index)] = fields

---------------------------------------------------------------------------
(* Searches with a limit on a table of up to MaxTableId records            *)

\* an order as a caller passes it: a str, seen as its clauses (the parts between
\* commas, stripped) and their tokens (the parts between spaces), or a value of another
\* type
Order(clauses) == [k |-> "str", clauses |-> clauses]

\* str.lower on the tokens used
Lower(token) ==
    CASE token = "DESC" -> "desc"
      [] token = "Asc" -> "asc"
      [] OTHER -> token

\* tools.validate_order
validate_order(order) ==
    IF order.k # "str" THEN "FsdbOrderError"
    ELSE IF \E i \in 1..Len(order.clauses) :
                \/ order.clauses[i] = <<"">>
                \/ Len(order.clauses[i]) # 2
                \/ Lower(order.clauses[i][Len(order.clauses[i])]) \notin {"asc", "desc"}
    THEN "FsdbOrderError"
    ELSE "ok"

OrderInputs ==
    {Order(<<<<"val1", "asc">>>>),
     Order(<<<<"val1", "DESC">>, <<"id", "Asc">>>>),
     Order(<<<<"val1">>>>),
     Order(<<<<"val1", "up">>>>),
     Order(<<<<"val1", "", "asc">>>>),
     Order(<<<<"val1", "asc">>, <<"">>>>),
     [k |-> "list", clauses |-> <<>>]}

TableIds == 1..MaxTableId

\* creates with an id in any order, and without one
TableCreateInputs ==
    {EmptyDict}
    \cup {("id" :> IntVal(i)) @@ ("val1" :> <<"str", v>>) : i \in TableIds, v \in {1, 2}}

\* limit: None is passed as 0, which search_records treats alike
LimitInputs == -1..MaxTableId

LimitDomains ==
    {ListDomain(<<>>),
     ListDomain(<<Filter("val1", "=", <<"str", 1>>)>>),
     ListDomain(<<Filter("id", "!=", IntVal(2))>>)}

\* Table.search_records(domain, limit); `all` is what the same call returns without
\* a limit
SearchLimit(domain, limit) ==
    /\ TableOpen
    /\ LET s == TableSearch(CacheState, disk, record_ids, domain, limit)
       IN  /\ SetCache(s.c)
           /\ last' = [op |-> "search_limit", out |-> s.out, domain |-> domain, ids |-> s.ids,
                       limit |-> limit,
                       all |-> TableSearch(CacheState, disk, record_ids, domain, 0)]
    /\ UNCHANGED <<disk, table_on_disk, record_ids, table_deleted, closed, handles, written>>
    /\ UNCHANGED <<fields, files, root, tables>>

\* Table.search_records(order=order): the method has the parameters domain and limit
\* only, the call raises TypeError (unexpected keyword argument)
SearchOrder(order) ==
    /\ TableOpen
    /\ last' = [op |-> "search_order", out |-> "TypeError", ids |-> <<>>, order |-> order,
                all |-> TableSearch(CacheState, disk, record_ids, ListDomain(<<>>), 0)]
    /\ UNCHANGED <<disk, table_on_disk, record_ids, table_deleted, closed, cache, cache_table, access_list,
                   cache_size, cache_size_limit, handles, written, fields, files, root, tables>>

NextTable ==
    \/ \E values \in TableCreateInputs : DatabaseCreate(values, TableIds)
    \/ \E domain \in LimitDomains, limit \in LimitInputs : SearchLimit(domain, limit)
    \/ \E order \in OrderInputs : SearchOrder(order)

SpecTable == Init /\ [][NextTable]_vars

\* the first n elements of a list, all of them when it is shorter
FirstN(s, n) == IF n < Len(s) THEN SubSeq(s, 1, n) ELSE s

\* C17: a search with a limit n > 0 returns the first min(n, number of matches) of the
\* records the search without a limit returns, in their order; with the empty domain
\* these are the first n ids of record_ids; with a limit of 0 or below (or None) it
\* returns all of them
C17_LimitBoundsResults ==
    (last.op = "search_limit" /\ last.all.out = "ok")
        => /\ last.out = "ok"
           /\ last.ids = IF last.limit > 0 THEN FirstN(last.all.ids, last.limit)
                         ELSE last.all.ids
           /\ last.domain.items = <<>> => last.all.ids = record_ids

\* a search with limit 1 has returned one of the two records that match, on a table
\* whose record_ids are not in ascending order
C17_Witness ==
    /\ last.op = "search_limit"
    /\ last.limit = 1
    /\ last.domain.items # <<>>
    /\ Len(last.all.ids) = 2
    /\ Len(last.ids) = 1
    /\ Len(record_ids) = MaxTableId
    /\ record_ids[1] > record_ids[2]

\* the sort key of a record for a field
OrderKey(rid, field) == IF field = "id" THEN rid ELSE written[rid][field][2]

\* record a may stand before record b under the clauses: the first clause on which
\* their keys differ decides
RECURSIVE OrderedBefore(_, _, _)
OrderedBefore(a, b, clauses) ==
    IF clauses = <<>> THEN TRUE
    ELSE LET ka == OrderKey(a, clauses[1][1])
             kb == OrderKey(b, clauses[1][1])
         IN  IF ka = kb THEN OrderedBefore(a, b, Tail(clauses))
             ELSE IF Lower(clauses[1][2]) = "asc" THEN ka < kb ELSE ka > kb

\* C18: a search with a well-formed order returns the records found sorted by the
\* clauses, the leftmost clause first; a search with a malformed order raises
\* FsdbOrderError
C18_OrderSortsOrRejects ==
    last.op = "search_order"
        => IF validate_order(last.order) = "ok"
           THEN /\ last.out = "ok"
                /\ Range(last.ids) = Range(last.all.ids) /\ Len(last.ids) = Len(last.all.ids)
                /\ \A i, j \in 1..Len(last.ids) :
                       i < j => OrderedBefore(last.ids[i], last.ids[j], last.order.clauses)
           ELSE last.out = "FsdbOrderError"

---------------------------------------------------------------------------
(* The attachments of one record of a table with two file fields and a    *)
(* file_list field (field.py).  File names are sequences of characters.   *)

\* the fields of the table of test_file_field and test_file_list, with a second file
\* field
FileFieldType ==
    [id |-> "int", create_datetime |-> "datetime", modify_datetime |-> "datetime",
     file |-> "file", file2 |-> "file", files |-> "file_list"]

\* the characters of the names of the fields
FieldChars ==
    [id |-> <<"i", "d">>,
     create_datetime |-> <<"c", "r", "e", "a", "t", "e", "_", "d", "a", "t", "e", "t", "i", "m", "e">>,
     modify_datetime |-> <<"m", "o", "d", "i", "f", "y", "_", "d", "a", "t", "e", "t", "i", "m", "e">>,
     file |-> <<"f", "i", "l", "e">>,
     file2 |-> <<"f", "i", "l", "e", "2">>,
     files |-> <<"f", "i", "l", "e", "s">>]

DataJson == <<"d", "a", "t", "a", ".", "j", "s", "o", "n">>

\* the characters \w matches, among those used
WordChars ==
    {"a", "b", "c", "d", "e", "f", "i", "j", "l", "m", "n", "o", "r", "s", "t", "y", "1", "2", "_"}

\* str.strip, for the space
RECURSIVE Strip(_)
Strip(name) ==
    IF name = <<>> THEN name
    ELSE IF Head(name) = " " THEN Strip(Tail(name))
    ELSE IF name[Len(name)] = " " THEN Strip(SubSeq(name, 1, Len(name) - 1))
    ELSE name

\* tools.sanitize_filename
sanitize_filename(filename) ==
    [i \in 1..Len(Strip(filename)) |->
        IF Strip(filename)[i] = " " THEN "_"
        ELSE IF Strip(filename)[i] \in WordChars \cup {"-", "."} THEN Strip(filename)[i]
        ELSE "_"]

\* a file name stored in data.json
StoredName(name) == <<"name", name>>

\* the path of an attachment below the record directory: dir is "" for the record
\* directory itself, or the name of a file_list field for its subdirectory
Path(dir, name) == <<dir, name>>

\* data_values.get(name)
DataGet(data_values, name) == IF name \in DOMAIN data_values THEN data_values[name] ELSE None

\* lines 143-147 left out: the old file stays in the record directory
KeepOldFile(name, data_values, fs) == fs

\* Field.write of a file field, lines 143-147: the old file is removed
RemoveOldFile(name, data_values, fs) ==
    IF DataGet(data_values, name) # None /\ Path("", DataGet(data_values, name)[2]) \in DOMAIN fs
    THEN DictRemove(fs, Path("", DataGet(data_values, name)[2]))
    ELSE fs

\* the values a caller writes to a file field: a dict with a name and data, where an
\* empty name or no data (v = 0) stands for a missing or empty entry and t is the type
\* of the data; a value that is no dict; None
FileValue(name, t, v) == [k |-> "dict", name |-> name, data |-> [t |-> t, v |-> v]]

NoneValue == [k |-> "none"]

NotADict == [k |-> "str"]

\* lines 163-167 left out: a name another file field stores is accepted
FileValueCheckNoConflict(name, value, data_values) ==
    IF value.k # "dict" \/ value.name = <<>> \/ value.data.v = 0 THEN "FsdbError"
    ELSE IF value.data.t # "bytes" THEN "FsdbError"
    ELSE IF value.name \in {DataJson} \cup {FieldChars[f] : f \in fields} THEN "FsdbError"
    ELSE IF value.name # sanitize_filename(value.name) THEN "FsdbError"
    ELSE "ok"

\* Field.write of a file field, lines 154-167: the validation of the new value
FileValueCheck(name, value, data_values) ==
    IF value.k # "dict" \/ value.name = <<>> \/ value.data.v = 0 THEN "FsdbError"
    ELSE IF value.data.t # "bytes" THEN "FsdbError"
    ELSE IF value.name \in {DataJson} \cup {FieldChars[f] : f \in fields} THEN "FsdbError"
    ELSE IF value.name # sanitize_filename(value.name) THEN "FsdbError"
    ELSE IF \E f \in fields \ {name} :
                FileFieldType[f] = "file" /\ DataGet(data_values, f) = StoredName(value.name)
    THEN "FsdbError"
    ELSE "ok"

\* Field.write of a file_list field, lines 187-197: the validation of the entries
FileListCheck(file_list) ==
    IF \E i \in 1..Len(file_list) :
           \/ file_list[i].k # "dict" \/ file_list[i].name = <<>> \/ file_list[i].data.v = 0
           \/ file_list[i].data.t # "bytes"
           \/ file_list[i].name # sanitize_filename(file_list[i].name)
           \/ \E j \in 1..(i - 1) : file_list[j].name = file_list[i].name
    THEN "FsdbError"
    ELSE "ok"

\* Field.write for a file or a file_list field.  value is a file value, or for a
\* file_list field [k |-> "list", items |-> the list] (another value counts as []).
\* Returns the outcome, data_values and the attachments.
FieldWrite(name, value, data_values, fs) ==
    IF FileFieldType[name] = "file"
    THEN IF value = NoneValue
         THEN [out |-> "ok", data_values |-> (name :> None) @@ data_values,
               files |-> RemoveOldFile(name, data_values, fs)]
         ELSE IF FileValueCheck(name, value, data_values) # "ok"
         THEN [out |-> "FsdbError", data_values |-> data_values,
               files |-> RemoveOldFile(name, data_values, fs)]
         ELSE [out |-> "ok", data_values |-> (name :> StoredName(value.name)) @@ data_values,
               files |-> (Path("", value.name) :> value.data.v)
                         @@ RemoveOldFile(name, data_values, fs)]
    ELSE LET file_list == IF value.k = "list" THEN value.items ELSE <<>>
             \* shutil.rmtree and os.makedirs of the subdirectory
             cleared == [p \in {q \in DOMAIN fs : q[1] # name} |-> fs[p]]
             new == [p \in {Path(name, file_list[i].name) : i \in 1..Len(file_list)} |->
                        LET i == CHOOSE i \in 1..Len(file_list) : file_list[i].name = p[2]
                        IN  file_list[i].data.v]
         IN  IF FileListCheck(file_list) # "ok"
             THEN [out |-> "FsdbError", data_values |-> data_values, files |-> cleared]
             ELSE [out |-> "ok", data_values |-> data_values, files |-> new @@ cleared]

\* Field.read for a file or a file_list field: the names of the files it returns, each
\* with the bytes at its path ({} for None and for [])
FieldRead(name, data_values, fs) ==
    IF FileFieldType[name] = "file"
    THEN IF DataGet(data_values, name) = None THEN {}
         ELSE IF Path("", DataGet(data_values, name)[2]) \notin DOMAIN fs THEN {}
         ELSE {[name |-> DataGet(data_values, name)[2],
                data |-> fs[Path("", DataGet(data_values, name)[2])]]}
    ELSE {[name |-> p[2], data |-> fs[p]] : p \in {q \in DOMAIN fs : q[1] = name}}

\* the record whose attachments are written
FileRecord == "1"

FileNames ==
    {<<"f", "1">>, <<"f", "2">>, DataJson, FieldChars.file2, FieldChars.files,
     <<"a", " ", "b">>, <<" ", "f", "1">>, <<"a", "/", "b">>}

FileInputs ==
    {NoneValue, NotADict, FileValue(<<>>, "bytes", 1), FileValue(<<"f", "1">>, "bytes", 0),
     FileValue(<<"f", "1">>, "str", 1)}
    \cup {FileValue(n, "bytes", v) : n \in FileNames, v \in {1, 2}}

FileListInputs ==
    {NoneValue}
    \cup {[k |-> "list", items |-> s] :
            s \in {<<>>,
                   <<FileValue(<<"f", "1">>, "bytes", 1)>>,
                   <<FileValue(<<"f", "1">>, "bytes", 1), FileValue(<<"f", "2">>, "bytes", 2)>>,
                   <<FileValue(<<"f", "2">>, "bytes", 1), FileValue(DataJson, "bytes", 2)>>,
                   <<FileValue(<<"f", "1">>, "bytes", 1), FileValue(<<"f", "1">>, "bytes", 2)>>,
                   <<FileValue(<<"f", "2">>, "bytes", 1), FileValue(<<"a", " ", "b">>, "bytes", 1)>>,
                   <<FileValue(<<"f", "2">>, "bytes", 1), NotADict>>}}

\* a table with the file fields holding one record, created without values
InitFiles ==
    /\ fields = DOMAIN FileFieldType
    /\ disk = (FileRecord :> (("id" :> IntVal(1)) @@ [k \in DOMAIN FileFieldType |-> None]))
    /\ files = EmptyDict
    /\ root = {DbName}
    /\ tables = EmptyDict
    /\ table_on_disk = TRUE
    /\ record_ids = <<1>>
    /\ table_deleted = FALSE
    /\ closed = FALSE
    /\ cache = EmptyDict
    /\ cache_table = NewDict
    /\ access_list = <<>>
    /\ cache_size = DefaultCacheSize
    /\ cache_size_limit = DefaultLimit(DefaultCacheSize)
    /\ handles = {Handle(1, FALSE)}
    /\ written = EmptyDict
    /\ last = [op |-> "init"]

\* Record.write of one file or file_list field: data.json is loaded, the field's write
\* is called on the dict, and the dict is saved when the write returned.  `old` and
\* `others` are the name the field, and the names the other file fields, stored before
\* the call.
FileWrite(name, value) ==
    /\ TableOpen
    /\ LET w == FieldWrite(name, value, disk[FileRecord], files)
       IN  /\ disk' = IF w.out = "ok" THEN (FileRecord :> w.data_values) @@ disk ELSE disk
           /\ files' = w.files
           /\ last' = [op |-> "file_write", field |-> name, value |-> value, out |-> w.out,
                       old |-> DataGet(disk[FileRecord], name),
                       others |-> {DataGet(disk[FileRecord], f) :
                                     f \in {g \in fields \ {name} : FileFieldType[g] = "file"}}]
    /\ UNCHANGED <<table_on_disk, record_ids, table_deleted, closed, cache, cache_table, access_list,
                   cache_size, cache_size_limit, handles, written, fields>>
    /\ UNCHANGED <<root, tables>>

\* Record.read of one file or file_list field
FileRead(name) ==
    /\ TableOpen
    /\ last' = [op |-> "file_read", field |-> name,
                out |-> FieldRead(name, disk[FileRecord], files)]
    /\ UNCHANGED <<disk, files, table_on_disk, record_ids, table_deleted, closed, cache, cache_table,
                   access_list, cache_size, cache_size_limit, handles, written, fields>>
    /\ UNCHANGED <<root, tables>>

NextFiles ==
    \/ \E name \in {"file", "file2"}, value \in FileInputs : FileWrite(name, value)
    \/ \E value \in FileListInputs : FileWrite("files", value)
    \/ \E name \in {"file", "file2", "files"} : FileRead(name)

SpecFiles == InitFiles /\ [][NextFiles]_vars

\* the names and bytes of the entries of a file_list value
ListEntries(value) ==
    IF value.k # "list" THEN {}
    ELSE {[name |-> value.items[i].name, data |-> value.items[i].data.v] :
             i \in 1..Len(value.items)}

FileFields == {f \in fields : FileFieldType[f] = "file"}

---------------------------------------------------------------------------
(* The cache alone (cache.py): puts, gets, deletes, clears and resizes on  *)
(* up to three keys.                                                       *)

MaxPuts == 3

CacheKeys == {"k1", "k2", "k3"}

\* the dicts put: of 64 and of 184 bytes
CacheValues == {EmptyDict, ("val1" :> <<"str", 1>>)}

CacheSizes == {64, 128, 184, 368}

\* the limits passed to set_cache_size: none, or a number
CacheLimits == {0, 200}

\* what the cache operations leave alone
recordVars == <<disk, table_on_disk, record_ids, table_deleted, closed, handles, written,
                fields, files, root, tables>>

\* the puts made since the cache was new and empty, as long as nothing but puts of
\* one value size followed: their keys in order, at most MaxPuts
FreshRun == [keys |-> <<>>, size |-> 0, clean |-> TRUE]

NoRun == [keys |-> <<>>, size |-> 0, clean |-> FALSE]

RunAfterPut(run, key, size) ==
    IF run.clean /\ Len(run.keys) < MaxPuts /\ (run.keys = <<>> \/ run.size = size)
    THEN [keys |-> Append(run.keys, key), size |-> size, clean |-> TRUE]
    ELSE NoRun

RunAfterOther(run) == IF run = FreshRun THEN FreshRun ELSE NoRun

\* Cache(): an empty cache of the default size
InitCache ==
    /\ disk = EmptyDict
    /\ table_on_disk = TRUE
    /\ record_ids = <<>>
    /\ table_deleted = FALSE
    /\ closed = FALSE
    /\ cache = EmptyDict
    /\ cache_table = NewDict
    /\ access_list = <<>>
    /\ cache_size = DefaultCacheSize
    /\ cache_size_limit = DefaultLimit(DefaultCacheSize)
    /\ handles = {}
    /\ written = EmptyDict
    /\ fields = DOMAIN FieldType
    /\ files = EmptyDict
    /\ root = {DbName}
    /\ tables = EmptyDict
    /\ last = [op |-> "init", key |-> "", size |-> 0, limit |-> 0, hit |-> FALSE,
               evicts |-> FALSE, run |-> FreshRun]

\* Cache.to_cache(key, value)
CachePut(key, value) ==
    /\ SetCache(to_cache(CacheState, key, value))
    /\ last' = [op |-> "to_cache", key |-> key, size |-> GetSizeOf(value), limit |-> 0,
                hit |-> FALSE, evicts |-> Evicts(CacheState, key, value),
                run |-> RunAfterPut(last.run, key, GetSizeOf(value))]
    /\ UNCHANGED recordVars

\* Cache.from_cache(key)
CacheGet(key) ==
    /\ SetCache(from_cache(CacheState, key).c)
    /\ last' = [op |-> "from_cache", key |-> key, size |-> 0, limit |-> 0,
                hit |-> from_cache(CacheState, key).hit, evicts |-> FALSE,
                run |-> RunAfterOther(last.run)]
    /\ UNCHANGED recordVars

\* Cache.del_cache(key)
CacheDel(key) ==
    /\ SetCache(del_cache(CacheState, key))
    /\ last' = [op |-> "del_cache", key |-> key, size |-> 0, limit |-> 0, hit |-> FALSE,
                evicts |-> FALSE, run |-> RunAfterOther(last.run)]
    /\ UNCHANGED recordVars

\* Cache.clear()
CacheClear ==
    /\ SetCache(cache_clear(CacheState))
    /\ last' = [op |-> "clear", key |-> "", size |-> 0, limit |-> 0, hit |-> FALSE,
                evicts |-> FALSE, run |-> FreshRun]
    /\ UNCHANGED recordVars

\* Cache.set_cache_size(cache_size, cache_size_limit)
CacheSetSize(size, limit) ==
    /\ SetCache(set_cache_size(CacheState, size, limit))
    /\ last' = [op |-> "set_cache_size", key |-> "", size |-> size, limit |-> limit,
                hit |-> FALSE, evicts |-> FALSE, run |-> RunAfterOther(last.run)]
    /\ UNCHANGED recordVars

NextCache ==
    \/ \E key \in CacheKeys, value \in CacheValues : CachePut(key, value)
    \/ \E key \in CacheKeys : CacheGet(key)
    \/ \E key \in CacheKeys : CacheDel(key)
    \/ CacheClear
    \/ \E size \in CacheSizes, limit \in CacheLimits : CacheSetSize(size, limit)

SpecCache == InitCache /\ [][NextCache]_vars

\* the keys of a run are distinct
DistinctKeys(keys) == \A i, j \in 1..Len(keys) : keys[i] = keys[j] => i = j

\* C23: after N+1 puts of distinct keys, each value of size s, into a new empty cache
\* of cache_size N*s with the default limit, the key put first is not in the cache
C23_OldestKeyEvicted ==
    (/\ last.op = "to_cache"
     /\ last.run.clean
     /\ Len(last.run.keys) >= 2
     /\ DistinctKeys(last.run.keys)
     /\ cache_size = (Len(last.run.keys) - 1) * last.run.size
     /\ cache_size_limit = DefaultLimit(cache_size))
        => last.run.keys[1] \notin DOMAIN cache

\* C29: after every to_cache call the measured size of the cache is at most
\* cache_size_limit; a call that starts the eviction ends with the measured size at most
\* cache_size or with an empty cache; cache_size_limit is max(cache_size, the limit
\* supplied), or 1.5 * cache_size when none is supplied, and so never below cache_size
C29_SizeWithinLimit ==
    /\ cache_size_limit >= cache_size
    /\ last.op = "set_cache_size"
           => cache_size_limit = IF last.limit = 0 THEN (3 * cache_size) \div 2
                                 ELSE IF cache_size > last.limit THEN cache_size
                                 ELSE last.limit
    /\ last.op = "to_cache" => TableSizeOf(cache_table) <= cache_size_limit
    /\ (last.op = "to_cache" /\ last.evicts)
           => (TableSizeOf(cache_table) <= cache_size \/ cache = EmptyDict)

\* s is what is left of the list t after some elements were taken from its front
IsSuffix(s, t) == \E n \in 0..Len(t) : s = SubSeq(t, n + 1, Len(t))

\* C30: from_cache on a hit and to_cache of a value the cache accepts make the key the
\* most recently used; what to_cache evicts are the least recently used keys, the cache
\* holds the keys of the access list, and the key just put is among them
C30_EvictionFollowsRecency ==
    [][/\ (last'.op = "from_cache" /\ last'.hit)
              => /\ access_list' = Append(RemoveFirst(access_list, last'.key), last'.key)
                 /\ cache' = cache
       /\ (last'.op = "to_cache" /\ last'.size <= cache_size)
              => /\ IsSuffix(access_list',
                             Append(RemoveFirst(access_list, last'.key), last'.key))
                 /\ DOMAIN cache' = Range(access_list')
                 /\ last'.key \in DOMAIN cache']_vars

---------------------------------------------------------------------------
(* Writes in a row to the records of a table of up to MaxId records        *)

\* a str, a datetime and a tuple value, two fields at once, no field, a str for the
\* datetime field, an unknown name and the id
RepeatedWriteInputs ==
    {EmptyDict, ("val1" :> <<"str", 1>>), ("val1" :> <<"str", 2>>),
     ("val2" :> <<"datetime", 1>>) @@ ("val3" :> <<"tuple", 1>>),
     ("val2" :> <<"str", 1>>), ("nofield" :> <<"str", 1>>), ("id" :> IntVal(1))}

\* the reads between the writes: of every field and of one
RepeatedReadInputs == {[all |-> TRUE, names |-> <<>>], [all |-> FALSE, names |-> <<"val1">>]}

\* Record.write, called after any call: `repeats` tells that the call before it was a
\* write of the same values to the same record, `before` is the table directory the
\* call found
RepeatedWrite(h, values) ==
    /\ Usable(h)
    /\ LET w == RecordWrite(CacheState, disk, h.index, values)
       IN  /\ SetCache(w.c)
           /\ disk' = w.disk
           /\ written' = IF w.out = "ok" /\ values # EmptyDict
                         THEN (h.index :> (values @@ (IF h.index \in DOMAIN written
                                                      THEN written[h.index]
                                                      ELSE [k \in UserFields |-> None])))
                              @@ written
                         ELSE written
           /\ last' = [op |-> "write", out |-> w.out, index |-> h.index, vals |-> values,
                       repeats |-> /\ last.op = "write"
                                   /\ last.index = h.index
                                   /\ last.vals = values,
                       before |-> disk]
    /\ UNCHANGED <<table_on_disk, record_ids, table_deleted, closed, handles>>
    /\ UNCHANGED <<fields, files, root, tables>>

NextWrites ==
    \/ \E values \in {EmptyDict, ("val1" :> <<"str", 1>>)} : DbCreate(values)
    \/ \E h \in handles, values \in RepeatedWriteInputs : RepeatedWrite(h, values)
    \/ \E h \in handles, field_names \in RepeatedReadInputs : RecRead(h, field_names)

SpecWrites == Init /\ [][NextWrites]_vars

\* C24: a write that follows a write of the same values to the same record leaves
\* every data.json of the table as the first write left it
C24_WriteTwiceSameBytes ==
    (last.op = "write" /\ last.repeats) => disk = last.before

\* a datetime and a tuple were written twice in a row to a record whose data.json
\* holds the str of the datetime
C24_Witness ==
    /\ last.op = "write"
    /\ last.repeats
    /\ last.out = "ok"
    /\ DOMAIN last.vals = {"val2", "val3"}
    /\ disk[IndexStr(last.index)]["val2"] = <<"str_datetime", 1>>
    /\ disk = last.before

\* the modify_datetime a read returns once the database is opened again on the table
\* directory dsk: the value of the record's data.json
StoredModifyDatetime(dsk, index) ==
    ReadConvert("datetime", load_values(dsk[IndexStr(index)])["modify_datetime"])

\* C25: after a write that returned, the modify_datetime stored for the record is set
\* and is later than the one stored before the write
C25_WriteAdvancesModifyDatetime ==
    (last.op = "write" /\ last.out = "ok")
        => LET new == StoredModifyDatetime(disk, last.index)
               old == StoredModifyDatetime(last.before, last.index)
           IN  /\ new # None
               /\ old # None => new[2] > old[2]

---------------------------------------------------------------------------
(* Records and tables deleted and created again under the same id and name *)

\* creates without an id and with each id, with and without a value
RecreateInputs ==
    {EmptyDict, ("val1" :> <<"str", 1>>)}
    \cup {("id" :> IntVal(i)) : i \in Ids}
    \cup {("id" :> IntVal(i)) @@ ("val1" :> <<"str", 2>>) : i \in Ids}

\* the state after construction; last.gone holds, by id, the values of the record
\* deleted last
InitDeletes ==
    /\ disk = EmptyDict
    /\ table_on_disk = TRUE
    /\ record_ids = <<>>
    /\ table_deleted = FALSE
    /\ closed = FALSE
    /\ cache = EmptyDict
    /\ cache_table = NewDict
    /\ access_list = <<>>
    /\ cache_size = DefaultCacheSize
    /\ cache_size_limit = DefaultLimit(DefaultCacheSize)
    /\ handles = {}
    /\ written = EmptyDict
    /\ fields = DOMAIN FieldType
    /\ files = EmptyDict
    /\ root = {DbName}
    /\ tables = EmptyDict
    /\ last = [op |-> "init", gone |-> EmptyDict]

\* Database.create
CreateAgain(values) ==
    /\ TableOpen
    /\ LET r == RecordCreate(CacheState, disk, record_ids, values)
       IN  /\ r.index \in Ids
           /\ SetCache(r.c)
           /\ disk' = r.disk
           /\ record_ids' = IF r.out = "ok" /\ r.index \notin Range(record_ids)
                            THEN Append(record_ids, r.index) ELSE record_ids
           /\ handles' = IF r.out = "ok" THEN handles \cup {Handle(r.index, FALSE)} ELSE handles
           /\ written' = WrittenAfterCreate(r, values)
           /\ last' = [op |-> "create", out |-> r.out, index |-> r.index, gone |-> last.gone]
    /\ UNCHANGED <<table_on_disk, table_deleted, closed>>
    /\ UNCHANGED <<fields, files, root, tables>>

\* Record.write of no value and of a value
WriteAgain(h, values) ==
    /\ Usable(h)
    /\ LET w == RecordWrite(CacheState, disk, h.index, values)
       IN  /\ SetCache(w.c)
           /\ disk' = w.disk
           /\ written' = IF w.out = "ok" /\ values # EmptyDict
                         THEN (h.index :> (values @@ (IF h.index \in DOMAIN written
                                                      THEN written[h.index]
                                                      ELSE [k \in UserFields |-> None])))
                              @@ written
                         ELSE written
           /\ last' = [op |-> "write", out |-> w.out, index |-> h.index, gone |-> last.gone]
    /\ UNCHANGED <<table_on_disk, record_ids, table_deleted, closed, handles>>
    /\ UNCHANGED <<fields, files, root, tables>>

\* Record.read of every field
ReadAgain(h) ==
    /\ Usable(h)
    /\ LET r == RecordRead(CacheState, disk, record_ids, h.index, [all |-> TRUE, names |-> <<>>])
       IN  /\ SetCache(r.c)
           /\ last' = [op |-> "read", out |-> r.out, index |-> h.index, vals |-> r.vals,
                       gone |-> last.gone]
    /\ UNCHANGED <<disk, table_on_disk, record_ids, table_deleted, closed, handles, written>>
    /\ UNCHANGED <<fields, files, root, tables>>

\* Record.delete.  Another Record object of the same id may stay with the caller.
DeleteRecord(h) ==
    /\ Usable(h)
    /\ LET d == RecordDelete(CacheState, disk, h.index)
       IN  /\ SetCache(d.c)
           /\ disk' = d.disk
           /\ \E other \in BOOLEAN :
                handles' = IF d.out # "ok" THEN handles
                           ELSE (IF other THEN handles ELSE handles \ {h})
                                \cup {Handle(h.index, TRUE)}
           /\ written' = IF d.out = "ok" THEN DictRemove(written, h.index) ELSE written
           /\ last' = [op |-> "delete", via |-> "Record", out |-> d.out, index |-> h.index,
                       gone |-> IF d.out = "ok" /\ h.index \in DOMAIN written
                                THEN (h.index :> written[h.index]) @@ last.gone
                                ELSE last.gone]
    /\ UNCHANGED <<table_on_disk, record_ids, table_deleted, closed>>
    /\ UNCHANGED <<fields, files, root, tables>>

\* Table.delete
DeleteTable ==
    /\ TableOpen
    /\ SetCache(cache_clear(CacheState))
    /\ disk' = EmptyDict
    /\ table_on_disk' = FALSE
    /\ table_deleted' = TRUE
    /\ written' = EmptyDict
    /\ last' = [op |-> "delete", via |-> "Table", out |-> "ok", index |-> 0,
                gone |-> written @@ last.gone]
    /\ UNCHANGED <<record_ids, closed, handles>>
    /\ UNCHANGED <<fields, files, root, tables>>

\* Table.create of the deleted table, with its name and fields: a new Table object
\* with no record, sharing the cache of the database.  The Record objects of the
\* deleted Table stay deleted and are not followed further.
CreateTableAgain ==
    /\ ~closed
    /\ ~table_on_disk
    /\ table_on_disk' = TRUE
    /\ table_deleted' = FALSE
    /\ record_ids' = <<>>
    /\ handles' = {}
    /\ last' = [op |-> "create_table", out |-> "ok", gone |-> last.gone]
    /\ UNCHANGED <<disk, closed, cache, cache_table, access_list, cache_size, cache_size_limit,
                   written>>
    /\ UNCHANGED <<fields, files, root, tables>>

NextDeletes ==
    \/ \E values \in RecreateInputs : CreateAgain(values)
    \/ \E h \in handles, values \in {EmptyDict, ("val1" :> <<"str", 1>>)} : WriteAgain(h, values)
    \/ \E h \in handles : ReadAgain(h)
    \/ \E h \in handles : DeleteRecord(h)
    \/ DeleteTable
    \/ CreateTableAgain

SpecDeletes == InitDeletes /\ [][NextDeletes]_vars

\* the values written to record index since it was created, None for the others
WrittenValues(index) ==
    IF index \in DOMAIN written THEN written[index] ELSE [k \in UserFields |-> None]

\* C28: after Record.delete the cache has no entry under the key of the record, after
\* Table.delete it has no entry at all, and a read returns the values written to the
\* record that exists now, whatever a deleted record of its id had
C28_NoValuesOfDeletedRecord ==
    /\ (last.op = "delete" /\ last.via = "Record")
           => get_cache_key(last.index) \notin DOMAIN cache
    /\ (last.op = "delete" /\ last.via = "Table") => cache = EmptyDict
    /\ (last.op = "read" /\ last.out = "ok")
           => \A k \in UserFields : last.vals[k] = WrittenValues(last.index)[k]

\* a record was read whose id a deleted record had, with another val1, in a table
\* created again after Table.delete
C28_Witness ==
    /\ last.op = "read"
    /\ last.out = "ok"
    /\ last.index \in DOMAIN last.gone
    /\ last.gone[last.index]["val1"] # None
    /\ last.gone[last.index]["val1"] # last.vals["val1"]
    /\ record_ids = <<last.index>>
    /\ Handle(last.index, TRUE) \notin handles

\* a record was read whose id a record deleted by Record.delete had, with another val1
C28_WitnessRecord ==
    /\ last.op = "read"
    /\ last.out = "ok"
    /\ Handle(last.index, TRUE) \in handles
    /\ last.index \in DOMAIN last.gone
    /\ last.gone[last.index]["val1"] # None
    /\ last.gone[last.index]["val1"] # last.vals["val1"]

---------------------------------------------------------------------------
(* The steps of one create, write or delete call.  last.pc is the position *)
(* of the call that runs ("idle" between calls), last.trace the kinds of   *)
(* its effects so far: "invalidate" (del_cache), "files" (a directory or   *)
(* data.json made, written or removed), "record_ids" and "populate"        *)
(* (to_cache).                                                             *)

StepCreateInputs == {EmptyDict, ("val1" :> <<"str", 1>>), ("id" :> IntVal(1))}

StepWriteInputs == {EmptyDict, ("val1" :> <<"str", 2>>), ("nofield" :> <<"str", 1>>)}

Idle == last.pc = "idle"

Returned(op, out, trace) == [op |-> op, pc |-> "idle", out |-> out, trace |-> trace]

InitSteps ==
    /\ disk = EmptyDict
    /\ table_on_disk = TRUE
    /\ record_ids = <<>>
    /\ table_deleted = FALSE
    /\ closed = FALSE
    /\ cache = EmptyDict
    /\ cache_table = NewDict
    /\ access_list = <<>>
    /\ cache_size = DefaultCacheSize
    /\ cache_size_limit = DefaultLimit(DefaultCacheSize)
    /\ handles = {}
    /\ written = EmptyDict
    /\ fields = DOMAIN FieldType
    /\ files = EmptyDict
    /\ root = {DbName}
    /\ tables = EmptyDict
    /\ last = Returned("init", "ok", <<>>)

\* Database.create, Record.create up to the call of write (record.py 60-82): the
\* directory is made and data.json gets the default values
CreateFiles(values) ==
    /\ Idle
    /\ TableOpen
    /\ LET index == IF "id" \in DOMAIN values THEN values.id[2] ELSE get_new_id(record_ids)
           dirname == IndexStr(index)
       IN  /\ index \in Ids
           /\ IF dirname \in DOMAIN disk
              THEN /\ last' = Returned("create", "FsdbError", <<>>)
                   /\ UNCHANGED disk
              ELSE /\ disk' = (dirname :> save_values("id" :> IntVal(index))) @@ disk
                   /\ last' = [op |-> "create", pc |-> "check", index |-> index,
                               values |-> [k \in (DOMAIN values) \ {"id"} |-> values[k]],
                               trace |-> <<"files">>]
    /\ UNCHANGED <<table_on_disk, record_ids, table_deleted, closed, cache, cache_table,
                   access_list, cache_size, cache_size_limit, handles, written>>
    /\ UNCHANGED <<fields, files, root, tables>>

\* the call of Record.write on a Record object of the caller
WriteCall(h, values) ==
    /\ Idle
    /\ Usable(h)
    /\ last' = [op |-> "write", pc |-> "check", index |-> h.index, values |-> values,
                trace |-> <<>>]
    /\ UNCHANGED <<disk, table_on_disk, record_ids, table_deleted, closed, cache, cache_table,
                   access_list, cache_size, cache_size_limit, handles, written>>
    /\ UNCHANGED <<fields, files, root, tables>>

\* Record.write, lines 92-99: the id and the unknown names
WriteCheck ==
    /\ last.pc = "check"
    /\ last' = IF "id" \in DOMAIN last.values
               THEN Returned(last.op, "FsdbError", last.trace)
               ELSE IF \E name \in DOMAIN last.values : name \notin FieldNames
               THEN Returned(last.op, "RuntimeError", last.trace)
               ELSE [last EXCEPT !.pc = "save"]
    /\ UNCHANGED <<disk, table_on_disk, record_ids, table_deleted, closed, cache, cache_table,
                   access_list, cache_size, cache_size_limit, handles, written>>
    /\ UNCHANGED <<fields, files, root, tables>>

\* Record.write, lines 101-113: data.json is loaded, changed and saved
WriteFiles ==
    /\ last.pc = "save"
    /\ LET dirname == IndexStr(last.index)
           data_values == [k \in DOMAIN last.values
                              |-> WriteConvert(FieldType[k], last.values[k])]
                          @@ load_values(disk[dirname])
       IN  IF last.values = EmptyDict
           THEN /\ last' = [last EXCEPT !.pc = "cache"]
                /\ UNCHANGED disk
           ELSE IF dirname \notin DOMAIN disk
           THEN /\ last' = Returned(last.op, "FileNotFoundError", last.trace)
                /\ UNCHANGED disk
           ELSE IF \E name \in DOMAIN last.values : data_values[name] = "TypeError"
           THEN /\ last' = Returned(last.op, "TypeError", last.trace)
                /\ UNCHANGED disk
           ELSE /\ disk' = (dirname :> save_values(data_values)) @@ disk
                /\ last' = [last EXCEPT !.pc = "cache", !.trace = Append(@, "files")]
    /\ UNCHANGED <<table_on_disk, record_ids, table_deleted, closed, cache, cache_table,
                   access_list, cache_size, cache_size_limit, handles, written>>
    /\ UNCHANGED <<fields, files, root, tables>>

\* Record.write, lines 116-118: the cached values are merged with the written ones
\* and put into the cache; a write called by the caller returns
WriteCache ==
    /\ last.pc = "cache"
    /\ LET key == get_cache_key(last.index)
           fc == from_cache(CacheState, key)
       IN  SetCache(to_cache(fc.c, key, DictMerge(fc.value, last.values)))
    /\ last' = IF last.op = "create"
               THEN [last EXCEPT !.pc = "append", !.trace = Append(@, "populate")]
               ELSE Returned("write", "ok", Append(last.trace, "populate"))
    /\ written' = IF last.op = "write" /\ last.values # EmptyDict
                  THEN (last.index :> (last.values @@ WrittenValues(last.index))) @@ written
                  ELSE written
    /\ UNCHANGED <<disk, table_on_disk, record_ids, table_deleted, closed, handles>>
    /\ UNCHANGED <<fields, files, root, tables>>

\* Database.create, lines 99-101: the id of the record created is appended
CreateAppend ==
    /\ last.pc = "append"
    /\ record_ids' = IF last.index \notin Range(record_ids)
                     THEN Append(record_ids, last.index) ELSE record_ids
    /\ handles' = handles \cup {Handle(last.index, FALSE)}
    /\ written' = (last.index :> [k \in UserFields |-> IF k \in DOMAIN last.values
                                                      THEN last.values[k] ELSE None])
                  @@ written
    /\ last' = Returned("create", "ok",
                        IF last.index \notin Range(record_ids)
                        THEN Append(last.trace, "record_ids") ELSE last.trace)
    /\ UNCHANGED <<disk, table_on_disk, table_deleted, closed, cache, cache_table, access_list,
                   cache_size, cache_size_limit>>
    /\ UNCHANGED <<fields, files, root, tables>>

\* Database.delete, lines 222-223: the search of the records of the domain
DeleteSearch(domain) ==
    /\ Idle
    /\ TableOpen
    /\ LET s == DatabaseSearch(CacheState, disk, record_ids, domain, 0)
       IN  /\ SetCache(s.c)
           /\ last' = IF s.out # "ok" \/ s.ids = <<>>
                      THEN Returned("delete", s.out, <<>>)
                      ELSE [op |-> "delete", pc |-> "remove", todo |-> s.ids, trace |-> <<>>]
    /\ UNCHANGED <<disk, table_on_disk, record_ids, table_deleted, closed, handles, written>>
    /\ UNCHANGED <<fields, files, root, tables>>

\* Database.delete, lines 225-226: the id of the next record found leaves record_ids
DeleteRemoveId ==
    /\ last.pc = "remove"
    /\ record_ids' = RemoveFirst(record_ids, Head(last.todo))
    /\ last' = [last EXCEPT !.pc = "invalidate",
                            !.trace = IF Head(last.todo) \in Range(record_ids)
                                      THEN <<"record_ids">> ELSE <<>>]
    /\ UNCHANGED <<disk, table_on_disk, table_deleted, closed, cache, cache_table, access_list,
                   cache_size, cache_size_limit, handles, written>>
    /\ UNCHANGED <<fields, files, root, tables>>

\* the call of Record.delete on a Record object of the caller
RecordDeleteCall(h) ==
    /\ Idle
    /\ Usable(h)
    /\ last' = [op |-> "delete", pc |-> "invalidate", todo |-> <<h.index>>, trace |-> <<>>]
    /\ UNCHANGED <<disk, table_on_disk, record_ids, table_deleted, closed, cache, cache_table,
                   access_list, cache_size, cache_size_limit, handles, written>>
    /\ UNCHANGED <<fields, files, root, tables>>

\* Record.delete, lines 188-189: the entry of the record leaves the cache
DeleteInvalidate ==
    /\ last.pc = "invalidate"
    /\ SetCache(del_cache(CacheState, get_cache_key(Head(last.todo))))
    /\ last' = [last EXCEPT !.pc = "rmtree", !.trace = Append(@, "invalidate")]
    /\ UNCHANGED <<disk, table_on_disk, record_ids, table_deleted, closed, handles, written>>
    /\ UNCHANGED <<fields, files, root, tables>>

\* Record.delete, lines 195-197: the directory is removed and the object marked;
\* Database.delete goes on with the next record found
DeleteRmtree ==
    /\ last.pc = "rmtree"
    /\ LET index == Head(last.todo)
           dirname == IndexStr(index)
       IN  IF dirname \notin DOMAIN disk
           THEN /\ last' = Returned("delete", "FileNotFoundError", last.trace)
                /\ UNCHANGED <<disk, handles, written>>
           ELSE /\ disk' = DictRemove(disk, dirname)
                /\ handles' = (handles \ {Handle(index, FALSE)}) \cup {Handle(index, TRUE)}
                /\ written' = DictRemove(written, index)
                /\ last' = IF Tail(last.todo) = <<>>
                           THEN Returned("delete", "ok", Append(last.trace, "files"))
                           ELSE [last EXCEPT !.pc = "remove", !.todo = Tail(@),
                                             !.trace = Append(@, "files")]
    /\ UNCHANGED <<table_on_disk, record_ids, table_deleted, closed, cache, cache_table,
                   access_list, cache_size, cache_size_limit>>
    /\ UNCHANGED <<fields, files, root, tables>>

NextSteps ==
    \/ \E values \in StepCreateInputs : CreateFiles(values)
    \/ \E h \in handles, values \in StepWriteInputs : WriteCall(h, values)
    \/ WriteCheck
    \/ WriteFiles
    \/ WriteCache
    \/ CreateAppend
    \/ \E domain \in IdDomains : DeleteSearch(domain)
    \/ DeleteRemoveId
    \/ \E h \in handles : RecordDeleteCall(h)
    \/ DeleteInvalidate
    \/ DeleteRmtree

SpecSteps == InitSteps /\ [][NextSteps]_vars

\* the place of a kind of effect in the order of the claim
StepRank(kind) ==
    CASE kind = "invalidate" -> 1
      [] kind = "files" -> 2
      [] kind = "record_ids" -> 3
      [] kind = "populate" -> 4

\* C27: in every call, no effect comes before an effect of an earlier kind (cache
\* invalidation, then files, then record_ids, then cache population), and a write or a
\* delete invalidates the cache entry before it changes the first file of the record
C27_StepsInOrder ==
    /\ \A i, j \in 1..Len(last.trace) :
           i < j => StepRank(last.trace[i]) <= StepRank(last.trace[j])
    /\ last.op \in {"write", "delete"}
           => \A j \in 1..Len(last.trace) :
                  last.trace[j] = "files" => \E i \in 1..(j - 1) : last.trace[i] = "invalidate"

---------------------------------------------------------------------------
(* Databases opened, created and deleted under root_path                   *)

\* the names passed: the database, one that does not exist and one that is not its
\* own sanitized form
DbNames == {DbName, <<"d", "b", "2">>, <<"d", " ", "b">>}

\* Database.__init__ (lines 23-42): the directory of the sanitized name is made when
\* it is absent; the object gets a new Cache and loads the tables of the directory.
\* The table directory t belongs to the database DbName.
DatabaseObject(name) ==
    /\ root' = root \cup {sanitize_filename(name)}
    /\ closed' = FALSE
    /\ SetCache([cache |-> EmptyDict, table |-> NewDict, access_list |-> <<>>,
                 cache_size |-> DefaultCacheSize,
                 cache_size_limit |-> DefaultLimit(DefaultCacheSize)])
    /\ handles' = {}
    /\ IF sanitize_filename(name) = DbName /\ DbName \in root /\ table_on_disk
       THEN record_ids' \in load_record_ids /\ table_deleted' = FALSE
       ELSE UNCHANGED <<record_ids, table_deleted>>
    /\ UNCHANGED <<disk, table_on_disk, written, fields, files, tables>>

\* Manager.is_database: the name is not sanitized
is_database(name) == name \in root

\* Database(name, root_path)
DatabaseInit(name) ==
    /\ DatabaseObject(name)
    /\ last' = [op |-> "open", via |-> "Database", name |-> name, out |-> "ok",
                existed |-> sanitize_filename(name) \in root, before |-> root]

\* Manager.open_database
ManagerOpen(name) ==
    IF ~is_database(name)
    THEN /\ last' = [op |-> "open", via |-> "Manager", name |-> name, out |-> "FsdbError",
                     existed |-> sanitize_filename(name) \in root, before |-> root]
         /\ UNCHANGED <<disk, table_on_disk, record_ids, table_deleted, closed, cache,
                        cache_table, access_list, cache_size, cache_size_limit, handles,
                        written, fields, files, root, tables>>
    ELSE /\ DatabaseObject(name)
         /\ last' = [op |-> "open", via |-> "Manager", name |-> name, out |-> "ok",
                     existed |-> sanitize_filename(name) \in root, before |-> root]

\* Manager.create_database
ManagerCreate(name) ==
    IF is_database(name)
    THEN /\ last' = [op |-> "create_database", name |-> name, out |-> "FsdbError"]
         /\ UNCHANGED <<disk, table_on_disk, record_ids, table_deleted, closed, cache,
                        cache_table, access_list, cache_size, cache_size_limit, handles,
                        written, fields, files, root, tables>>
    ELSE /\ DatabaseObject(name)
         /\ last' = [op |-> "create_database", name |-> name, out |-> "ok"]

\* Manager.delete_database: the directory of the name and what it holds is removed
ManagerDelete(name) ==
    IF ~is_database(name)
    THEN /\ last' = [op |-> "delete_database", name |-> name, out |-> "FsdbError"]
         /\ UNCHANGED <<disk, table_on_disk, record_ids, table_deleted, closed, cache,
                        cache_table, access_list, cache_size, cache_size_limit, handles,
                        written, fields, files, root, tables>>
    ELSE /\ root' = root \ {name}
         /\ disk' = IF name = DbName THEN EmptyDict ELSE disk
         /\ table_on_disk' = IF name = DbName THEN FALSE ELSE table_on_disk
         /\ written' = IF name = DbName THEN EmptyDict ELSE written
         /\ last' = [op |-> "delete_database", name |-> name, out |-> "ok"]
         /\ UNCHANGED <<record_ids, table_deleted, closed, cache, cache_table, access_list,
                        cache_size, cache_size_limit, handles, fields, files, tables>>

NextOpen ==
    \/ \E name \in DbNames : DatabaseInit(name)
    \/ \E name \in DbNames : ManagerOpen(name)
    \/ \E name \in DbNames : ManagerCreate(name)
    \/ \E name \in DbNames : ManagerDelete(name)

SpecOpen == Init /\ [][NextOpen]_vars

\* C22: an open of a database whose directory does not exist fails with
\* FsdbObjectNotFound and leaves the directories under root_path as they were
C22_OpenOfMissingFails ==
    (last.op = "open" /\ ~last.existed)
        => /\ last.out = "FsdbObjectNotFound"
           /\ root = last.before

---------------------------------------------------------------------------
(* Records of several tables of one database, which share its cache        *)

\* the table names passed to Table.create, with their characters
KeyTableChars == [a |-> <<"a">>, a1 |-> <<"a", "-">>, a2 |-> <<"a", " ">>]

KeyTableName == [a |-> "a", a1 |-> "a-", a2 |-> "a "]

\* the ids of the records: ints, one of them negative
KeyIds == {-1, 1}

KeyValues == {<<"str", 1>>, <<"str", 2>>}

\* the database without a table
InitKeys ==
    /\ disk = EmptyDict
    /\ table_on_disk = FALSE
    /\ record_ids = <<>>
    /\ table_deleted = FALSE
    /\ closed = FALSE
    /\ cache = EmptyDict
    /\ cache_table = NewDict
    /\ access_list = <<>>
    /\ cache_size = DefaultCacheSize
    /\ cache_size_limit = DefaultLimit(DefaultCacheSize)
    /\ handles = {}
    /\ written = EmptyDict
    /\ fields = DOMAIN FieldType
    /\ files = EmptyDict
    /\ root = {DbName}
    /\ tables = EmptyDict
    /\ last = [op |-> "init"]

\* Table.create(database, name, [val1]), lines 277-285 and 312-314: the name has to
\* be its own sanitized form and the directory must not exist
KeyTableCreate(t) ==
    /\ ~closed
    /\ IF sanitize_filename(KeyTableChars[t]) # KeyTableChars[t]
          \/ KeyTableName[t] \in DOMAIN tables
       THEN /\ last' = [op |-> "create_table", name |-> KeyTableName[t], out |-> "FsdbError"]
            /\ UNCHANGED tables
       ELSE /\ tables' = (KeyTableName[t] :> EmptyDict) @@ tables
            /\ last' = [op |-> "create_table", name |-> KeyTableName[t], out |-> "ok"]
    /\ UNCHANGED <<disk, table_on_disk, record_ids, table_deleted, closed, cache, cache_table,
                   access_list, cache_size, cache_size_limit, handles, written, fields, files,
                   root>>

\* Database.create(name, {'id': index, 'val1': value}): Record.create makes the
\* directory and data.json, and Record.write merges the value into the dict cached
\* under the key of the record
KeyCreate(name, index, value) ==
    /\ ~closed
    /\ name \in DOMAIN tables
    /\ LET dirname == IndexStr(index)
           key == CacheKey(name, dirname)
           fc == from_cache(CacheState, key)
           data == [id |-> IntVal(index), val1 |-> value, create_datetime |-> None,
                    modify_datetime |-> None]
       IN  IF dirname \in DOMAIN tables[name]
           THEN /\ last' = [op |-> "create", table |-> name, index |-> index,
                            out |-> "FsdbError"]
                /\ UNCHANGED <<tables, cache, cache_table, access_list, cache_size,
                               cache_size_limit>>
           ELSE /\ tables' = [tables EXCEPT ![name] = (dirname :> data) @@ @]
                /\ SetCache(to_cache(fc.c, key, DictMerge(fc.value, "val1" :> value)))
                /\ last' = [op |-> "create", table |-> name, index |-> index, out |-> "ok"]
    /\ UNCHANGED <<disk, table_on_disk, record_ids, table_deleted, closed, handles, written,
                   fields, files, root>>

\* Record.read(['val1']) of a record of a table: the cached dict answers when it has
\* val1, else data.json is loaded and the dict completed and cached
KeyRead(name, index) ==
    /\ ~closed
    /\ name \in DOMAIN tables
    /\ IndexStr(index) \in DOMAIN tables[name]
    /\ LET dirname == IndexStr(index)
           key == CacheKey(name, dirname)
           fc == from_cache(CacheState, key)
           loaded == ("val1" :> tables[name][dirname].val1) @@ fc.value
       IN  /\ IF "val1" \in DOMAIN fc.value
              THEN SetCache(fc.c)
              ELSE SetCache(to_cache(fc.c, key, loaded))
           /\ last' = [op |-> "read", table |-> name, index |-> index, out |-> "ok",
                       val1 |-> IF "val1" \in DOMAIN fc.value THEN fc.value["val1"]
                                ELSE loaded["val1"]]
    /\ UNCHANGED <<disk, table_on_disk, record_ids, table_deleted, closed, handles, written,
                   fields, files, root, tables>>

\* Cache.clear, as Table.delete and the caller use it
KeyCacheClear ==
    /\ ~closed
    /\ SetCache(cache_clear(CacheState))
    /\ last' = [op |-> "clear"]
    /\ UNCHANGED <<disk, table_on_disk, record_ids, table_deleted, closed, handles, written,
                   fields, files, root, tables>>

NextKeys ==
    \/ \E t \in DOMAIN KeyTableChars : KeyTableCreate(t)
    \/ \E name \in DOMAIN tables, index \in KeyIds, value \in KeyValues :
           KeyCreate(name, index, value)
    \/ \E name \in DOMAIN tables, index \in KeyIds : KeyRead(name, index)
    \/ KeyCacheClear

SpecKeys == InitKeys /\ [][NextKeys]_vars

\* the records of the database: the pairs of a table name and a record directory
KeyRecords == {<<name, dirname>> \in (DOMAIN tables) \X {IndexStr(i) : i \in KeyIds} :
                 dirname \in DOMAIN tables[name]}

\* C26: no two records of the database have the same cache key, and a read returns
\* the val1 of the data.json of the record read
C26_CacheKeysUnique ==
    /\ \A p, q \in KeyRecords : CacheKey(p[1], p[2]) = CacheKey(q[1], q[2]) => p = q
    /\ (last.op = "read" /\ last.out = "ok")
           => last.val1 = tables[last.table][IndexStr(last.index)].val1

---------------------------------------------------------------------------
(* Table.create with the field names as the caller writes them             *)

\* str.lower, for the capitals used
LowerChar == [I |-> "i", D |-> "d", S |-> "s"]

LowerChars(name) ==
    [i \in 1..Len(name) |-> IF name[i] \in DOMAIN LowerChar THEN LowerChar[name[i]] ELSE name[i]]

\* Field.__init__: self.name = name.strip().lower()
FieldName(name) == LowerChars(Strip(name))

IdStrChars == <<"i", "d", "_", "s", "t", "r">>

\* Table.RESERVED_FIELD_NAMES
RESERVED_FIELD_NAMES ==
    {DataJson, FieldChars.id, IdStrChars, FieldChars.create_datetime,
     FieldChars.modify_datetime}

\* the code points of the characters used, which order the strs
CharCode ==
    [c \in {" ", ".", "1", "D", "I", "S", "_", "a", "c", "d", "e", "f", "i", "j", "l", "m",
            "n", "o", "r", "s", "t", "v", "y"} |->
        CASE c = " " -> 32 [] c = "." -> 46 [] c = "1" -> 49 [] c = "D" -> 68
          [] c = "I" -> 73 [] c = "S" -> 83 [] c = "_" -> 95 [] c = "a" -> 97
          [] c = "c" -> 99 [] c = "d" -> 100 [] c = "e" -> 101 [] c = "f" -> 102
          [] c = "i" -> 105 [] c = "j" -> 106 [] c = "l" -> 108 [] c = "m" -> 109
          [] c = "n" -> 110 [] c = "o" -> 111 [] c = "r" -> 114 [] c = "s" -> 115
          [] c = "t" -> 116 [] c = "v" -> 118 [] c = "y" -> 121]

\* a < b for two strs
RECURSIVE StrLess(_, _)
StrLess(a, b) ==
    IF b = <<>> THEN FALSE
    ELSE IF a = <<>> THEN TRUE
    ELSE IF Head(a) # Head(b) THEN CharCode[Head(a)] < CharCode[Head(b)]
    ELSE StrLess(Tail(a), Tail(b))

\* sorted(keys)
RECURSIVE SortedKeys(_)
SortedKeys(keys) ==
    IF keys = {} THEN <<>>
    ELSE LET least == CHOOSE k \in keys : \A other \in keys \ {k} : StrLess(k, other)
         IN  <<least>> \o SortedKeys(keys \ {least})

\* the dict a loop `d[x['name']] = x` over a list builds: the last entry of a name stays
DictOfList(list) ==
    [k \in {list[i].name : i \in 1..Len(list)} |->
        list[CHOOSE i \in 1..Len(list) :
                 /\ list[i].name = k
                 /\ \A j \in (i + 1)..Len(list) : list[j].name # k]]

\* Field.from_dict of a field of the caller and Field.to_dict
FieldOf(field_data) ==
    [name |-> FieldName(field_data.name), type |-> field_data.type, index |-> field_data.index]

\* the fields Table.create appends
SystemFields(id_type) ==
    <<[name |-> FieldChars.id, type |-> id_type, index |-> TRUE],
      [name |-> FieldChars.create_datetime, type |-> "datetime", index |-> FALSE],
      [name |-> FieldChars.modify_datetime, type |-> "datetime", index |-> FALSE]>>

\* Table.validate on the keys of Table.fields
TableValidate(keys) ==
    IF FieldChars.id \notin keys THEN "FsdbError"
    ELSE IF IdStrChars \in keys THEN "FsdbError"
    ELSE IF FieldChars.create_datetime \notin keys THEN "FsdbError"
    ELSE IF FieldChars.modify_datetime \notin keys THEN "FsdbError"
    ELSE "ok"

\* Field.FIELD_TYPES
FIELD_TYPES ==
    {"bool", "str", "int", "float", "list", "tuple", "dict", "datetime", "file", "file_list"}

\* Table.create(database, name, fields) where no table directory exists.  Returns the
\* outcome, the fields of the Table returned (name -> Field) and whether the table
\* directory and its data.json were written.
TableCreate(field_list) ==
    LET ids == {i \in 1..Len(field_list) : field_list[i].name = FieldChars.id}
        id_type == IF ids = {} THEN "int"
                   ELSE field_list[CHOOSE i \in ids : \A j \in ids : j <= i].type
        rest == SelectSeq(field_list, LAMBDA f : f.name # FieldChars.id)
        \* obj.fields, keyed by the names as passed
        obj_fields == DictOfList(rest \o SystemFields(id_type))
        \* Table.save_data: the fields in the order of the sorted keys, under Field.name
        saved == [i \in 1..Cardinality(DOMAIN obj_fields) |->
                     FieldOf(obj_fields[SortedKeys(DOMAIN obj_fields)[i]])]
        \* Table.load_data: keyed by the names of data.json
        loaded == DictOfList(saved)
    IN  IF \E i \in ids : field_list[i].type \notin {"int", "datetime"}
        THEN [out |-> "FsdbError", fields |-> EmptyDict, made |-> FALSE]
        ELSE IF \E i \in 1..Len(rest) : rest[i].name \in RESERVED_FIELD_NAMES
        THEN [out |-> "FsdbError", fields |-> EmptyDict, made |-> FALSE]
        \* Field.from_dict of each field: Field.validate
        ELSE IF \E i \in 1..Len(rest) : rest[i].type \notin FIELD_TYPES
        THEN [out |-> "FsdbError", fields |-> EmptyDict, made |-> FALSE]
        ELSE IF TableValidate(DOMAIN obj_fields) # "ok"
        THEN [out |-> "FsdbError", fields |-> EmptyDict, made |-> FALSE]
        ELSE IF TableValidate(DOMAIN loaded) # "ok"
        THEN [out |-> "FsdbError", fields |-> loaded, made |-> TRUE]
        ELSE [out |-> "ok", fields |-> loaded, made |-> TRUE]

\* the names a caller gives the fields: as they are, with a space at an end, with
\* capitals
CreateFieldNames ==
    {<<"v", "a", "l", "1">>,
     <<"i", "d">>,
     <<"i", "d", " ">>,
     <<"I", "D">>,
     <<"i", "d", "_", "s", "t", "r">>,
     <<"I", "d", "_", "S", "t", "r">>,
     <<"d", "a", "t", "a", ".", "j", "s", "o", "n">>,
     <<" ", "d", "a", "t", "a", ".", "j", "s", "o", "n">>,
     <<"c", "r", "e", "a", "t", "e", "_", "d", "a", "t", "e", "t", "i", "m", "e", " ">>}

\* the fields passed: dicts with a name and a type
CreateFields ==
    [name : CreateFieldNames, type : {"int", "str", "datetime", "text"}, index : {FALSE}]

\* the names a caller gives the table: a valid one and one sanitize_filename changes
CreateTableNames == {<<"t">>, <<"t", " ">>}

\* the lists of up to two fields; a list of two starts with val1 or with id
CreateFieldLists ==
    {<<>>} \cup {<<f>> : f \in CreateFields}
           \cup {<<f, g>> : f \in {h \in CreateFields : h.name \in {<<"v", "a", "l", "1">>, FieldChars.id}
                                                         /\ h.type = "int"},
                            g \in CreateFields}

\* the database without a table
InitCreate ==
    /\ disk = EmptyDict
    /\ table_on_disk = FALSE
    /\ record_ids = <<>>
    /\ table_deleted = FALSE
    /\ closed = FALSE
    /\ cache = EmptyDict
    /\ cache_table = NewDict
    /\ access_list = <<>>
    /\ cache_size = DefaultCacheSize
    /\ cache_size_limit = DefaultLimit(DefaultCacheSize)
    /\ handles = {}
    /\ written = EmptyDict
    /\ fields = {}
    /\ files = EmptyDict
    /\ root = {DbName}
    /\ tables = EmptyDict
    /\ last = [op |-> "init"]

\* Table.create(database, name, field_list), where the table directory of the model
\* is that of the name 't'; fields holds the names as chars here.  last.existed and
\* last.schema are the table directory and the fields the call found.
CreateTable(name, field_list) ==
    /\ ~closed
    /\ IF sanitize_filename(name) # name \/ table_on_disk
       THEN /\ last' = [op |-> "create_table", name |-> name, input |-> field_list,
                        out |-> "FsdbError", fields |-> EmptyDict,
                        existed |-> table_on_disk, schema |-> fields]
            /\ UNCHANGED <<table_on_disk, table_deleted, record_ids, fields>>
       ELSE /\ table_on_disk' = TableCreate(field_list).made
            /\ table_deleted' = FALSE
            /\ record_ids' = <<>>
            /\ fields' = DOMAIN TableCreate(field_list).fields
            /\ last' = [op |-> "create_table", name |-> name, input |-> field_list,
                        out |-> TableCreate(field_list).out,
                        fields |-> TableCreate(field_list).fields,
                        existed |-> table_on_disk, schema |-> fields]
    /\ UNCHANGED <<disk, closed, cache, cache_table, access_list, cache_size, cache_size_limit,
                   handles, written, files, root, tables>>

\* shutil.rmtree of the table directory, as Table.delete and Manager.delete_database
\* do it
RemoveTable ==
    /\ table_on_disk
    /\ table_on_disk' = FALSE
    /\ table_deleted' = TRUE
    /\ fields' = {}
    /\ last' = [op |-> "delete_table"]
    /\ UNCHANGED <<disk, record_ids, closed, cache, cache_table, access_list, cache_size,
                   cache_size_limit, handles, written, files, root, tables>>

NextCreate ==
    \/ \E name \in CreateTableNames, field_list \in CreateFieldLists : CreateTable(name, field_list)
    \/ RemoveTable

SpecCreate == InitCreate /\ [][NextCreate]_vars

\* a field of the list bears, lower-cased and trimmed, a reserved name other than id,
\* or the name id with a type other than int and datetime
ReservedInput(field_list) ==
    \E i \in 1..Len(field_list) :
        \/ FieldName(field_list[i].name) \in RESERVED_FIELD_NAMES \ {FieldChars.id}
        \/ /\ FieldName(field_list[i].name) = FieldChars.id
           /\ field_list[i].type \notin {"int", "datetime"}

\* C21: a Table.create whose fields bear a reserved name, or give id a type other than
\* int and datetime, raises FsdbError; the table a Table.create returns has an id of
\* type int or datetime, a create_datetime and a modify_datetime of type datetime,
\* and neither a data.json nor an id_str field
C21_SystemFieldsAndReservedNames ==
    last.op = "create_table"
        => /\ ReservedInput(last.input) => last.out = "FsdbError"
           /\ last.out = "ok"
                  => /\ {FieldChars.id, FieldChars.create_datetime, FieldChars.modify_datetime}
                            \subseteq DOMAIN last.fields
                     /\ last.fields[FieldChars.id].type \in {"int", "datetime"}
                     /\ last.fields[FieldChars.create_datetime].type = "datetime"
                     /\ last.fields[FieldChars.modify_datetime].type = "datetime"
                     /\ DataJson \notin DOMAIN last.fields
                     /\ IdStrChars \notin DOMAIN last.fields

---------------------------------------------------------------------------
(* The frame of the cache operations                                       *)

\* C31: a to_cache of a value whose size is above cache_size leaves the dict of the
\* cache, its hash table and the access list as they were (and the call returns: no
\* step of to_cache raises)
C31_OversizedPutRejected ==
    [][(last'.op = "to_cache" /\ last'.size > cache_size)
           => /\ cache' = cache
              /\ cache_table' = cache_table
              /\ access_list' = access_list
              /\ cache_size' = cache_size
              /\ cache_size_limit' = cache_size_limit]_vars

\* a value of 184 bytes was put under a new key into a cache of a smaller cache_size
\* that holds another key
C31_Witness ==
    /\ last.op = "to_cache"
    /\ last.size > cache_size
    /\ cache # EmptyDict
    /\ last.key \notin DOMAIN cache
    /\ access_list # <<>>

---------------------------------------------------------------------------
(* Loading, browsing and searching a table whose field val1 is declared    *)
(* with index, between the operations on its records                       *)

\* the fields of the table declared with index, besides id (Table.build_indexes,
\* lines 110-116)
IndexFieldNames == <<"val1">>

\* `for rec in records: rec.read(names)`: the cache after the reads
RECURSIVE ReadEach(_, _, _, _, _)
ReadEach(c, dsk, rids, records, names) ==
    IF records = <<>> THEN c
    ELSE ReadEach(RecordRead(c, dsk, rids, Head(records), [all |-> FALSE, names |-> names]).c,
                  dsk, rids, Tail(records), names)

\* `for name in index_field_names: self.fields[name].build_index(records)`:
\* Field.build_index reads the field of every record
RECURSIVE BuildEach(_, _, _, _)
BuildEach(c, dsk, rids, names) ==
    IF names = <<>> THEN c
    ELSE BuildEach(ReadEach(c, dsk, rids, rids, <<Head(names)>>), dsk, rids, Tail(names))

\* Table.build_indexes: the records are read into the cache, then every index is built
build_indexes(c, dsk, rids, names) ==
    IF Len(names) > 0 THEN BuildEach(ReadEach(c, dsk, rids, rids, names), dsk, rids, names)
    ELSE c

\* Table(name, database) on the open database: load_data, load_record_ids and
\* build_indexes.  The Record objects of the Table object replaced are not followed
\* further.
LoadTable ==
    /\ TableOpen
    /\ \E rids \in load_record_ids :
          /\ record_ids' = rids
          /\ SetCache(build_indexes(CacheState, disk, rids, IndexFieldNames))
    /\ handles' = {}
    /\ last' = [op |-> "load"]
    /\ UNCHANGED <<disk, table_on_disk, table_deleted, closed, written>>
    /\ UNCHANGED <<fields, files, root, tables>>

\* Table.get_new_id
GetNewId ==
    /\ TableOpen
    /\ last' = [op |-> "get_new_id", out |-> get_new_id(record_ids)]
    /\ UNCHANGED <<disk, table_on_disk, record_ids, table_deleted, closed, cache, cache_table,
                   access_list, cache_size, cache_size_limit, handles, written>>
    /\ UNCHANGED <<fields, files, root, tables>>

NextLoad ==
    \/ \E values \in {EmptyDict, ("val1" :> <<"str", 1>>)} :
           DatabaseCreate(values, 1..MaxRecordId)
    \/ \E h \in handles : RecRead(h, [all |-> TRUE, names |-> <<>>])
    \/ \E h \in handles : RecDelete(h)
    \/ \E index \in 1..MaxRecordId : Browse(index)
    \/ \E domain \in IdDomains : Search(domain)
    \/ GetNewId
    \/ LoadTable
    \/ TableDelete

SpecLoad == Init /\ [][NextLoad]_vars

\* C32: a step that is no Record.write (a create ends with one), no Record.read and
\* no Record.delete leaves the dict of the cache and the access list as they were:
\* so do a load of the table, get_new_id, browse_records, a search on the id field and
\* the delete of the table
C32_OnlyRecordCallsTouchCache ==
    [][(\/ last'.op \in {"load", "get_new_id", "browse", "search"}
        \/ (last'.op = "delete" /\ last'.via = "Table"))
           => (cache' = cache /\ access_list' = access_list)]_vars

---------------------------------------------------------------------------
(* Record directories without a data.json: a Record.create that stops      *)
(* between os.makedirs (line 74) and save_values (line 80) leaves one      *)

\* what the table directory maps a record directory without data.json to
NoDataJson == [isfile |-> FALSE]

\* Table.load_record_ids without the rmtree of line 100
KeepRecordDirs(dsk) == dsk

\* Table.load_record_ids, lines 93-101: the table directory after the loop
LoadRecordDirs(dsk) == [d \in {x \in DOMAIN dsk : dsk[x] # NoDataJson} |-> dsk[d]]

\* Table.load_record_ids, lines 102-104: the ids, in the order of os.listdir
LoadRecordIds(dsk) ==
    Orders({str2val(FieldType.id, d)[2] : d \in {x \in DOMAIN dsk : dsk[x] # NoDataJson}})

OrphanCreateInputs == {EmptyDict} \cup {("id" :> IntVal(i)) : i \in 1..MaxRecordId}

\* Record.create, stopped after line 74
CreateInterrupted(values) ==
    /\ TableOpen
    /\ LET index == IF "id" \in DOMAIN values THEN values.id[2] ELSE get_new_id(record_ids)
       IN  /\ index \in 1..MaxRecordId
           /\ IndexStr(index) \notin DOMAIN disk
           /\ disk' = (IndexStr(index) :> NoDataJson) @@ disk
           /\ last' = [op |-> "create", out |-> "interrupted", index |-> index, before |-> disk,
                       auto |-> "id" \notin DOMAIN values]
    /\ UNCHANGED <<table_on_disk, record_ids, table_deleted, closed, cache, cache_table,
                   access_list, cache_size, cache_size_limit, handles, written>>
    /\ UNCHANGED <<fields, files, root, tables>>

\* Database.create
CreateRecord(values) ==
    /\ TableOpen
    /\ LET r == RecordCreate(CacheState, disk, record_ids, values)
       IN  /\ r.index \in 1..MaxRecordId
           /\ SetCache(r.c)
           /\ disk' = r.disk
           /\ record_ids' = IF r.out = "ok" /\ r.index \notin Range(record_ids)
                            THEN Append(record_ids, r.index) ELSE record_ids
           /\ handles' = IF r.out = "ok" THEN handles \cup {Handle(r.index, FALSE)} ELSE handles
           /\ written' = WrittenAfterCreate(r, values)
           /\ last' = [op |-> "create", out |-> r.out, index |-> r.index, before |-> disk,
                       auto |-> "id" \notin DOMAIN values]
    /\ UNCHANGED <<table_on_disk, table_deleted, closed>>
    /\ UNCHANGED <<fields, files, root, tables>>

\* Database.delete of the record of an id: the id leaves record_ids, then Record.delete
DeleteById(index) ==
    /\ TableOpen
    /\ index \in Range(record_ids)
    /\ IndexStr(index) \in DOMAIN disk
    /\ SetCache(RecordDelete(CacheState, disk, index).c)
    /\ disk' = RecordDelete(CacheState, disk, index).disk
    /\ record_ids' = RemoveFirst(record_ids, index)
    /\ handles' = {h \in handles : h.index # index}
    /\ written' = DictRemove(written, index)
    /\ last' = [op |-> "delete", out |-> RecordDelete(CacheState, disk, index).out,
                index |-> index, before |-> disk]
    /\ UNCHANGED <<table_on_disk, table_deleted, closed>>
    /\ UNCHANGED <<fields, files, root, tables>>

\* Table(name, database): load_record_ids on the table directory (the table has no
\* index besides id)
LoadRecords ==
    /\ TableOpen
    /\ disk' = LoadRecordDirs(disk)
    /\ record_ids' \in LoadRecordIds(disk)
    /\ handles' = {}
    /\ last' = [op |-> "load", out |-> "ok", index |-> 0, before |-> disk]
    /\ UNCHANGED <<table_on_disk, table_deleted, closed, cache, cache_table, access_list,
                   cache_size, cache_size_limit, written>>
    /\ UNCHANGED <<fields, files, root, tables>>

NextOrphans ==
    \/ \E values \in OrphanCreateInputs : CreateInterrupted(values)
    \/ \E values \in OrphanCreateInputs : CreateRecord(values)
    \/ \E index \in 1..MaxRecordId : DeleteById(index)
    \/ LoadRecords

SpecOrphans == Init /\ [][NextOrphans]_vars

\* C33: when a load returns, no record directory that had no data.json is left, the
\* directories that had one are as before, and record_ids holds the id of each of
\* them, once
C33_LoadRemovesOrphans ==
    last.op = "load"
        => /\ \A d \in DOMAIN last.before : last.before[d] = NoDataJson => d \notin DOMAIN disk
           /\ \A d \in DOMAIN last.before : last.before[d] # NoDataJson
                  => (d \in DOMAIN disk /\ disk[d] = last.before[d])
           /\ DOMAIN disk \subseteq DOMAIN last.before
           /\ Range(record_ids) = {str2val(FieldType.id, d)[2] : d \in DOMAIN disk}
           /\ Len(record_ids) = Cardinality(DOMAIN disk)

\* a load found a record and the directory an interrupted create left
C33_Witness ==
    /\ last.op = "load"
    /\ \E d \in DOMAIN last.before : last.before[d] = NoDataJson
    /\ \E d \in DOMAIN last.before : last.before[d] # NoDataJson
    /\ Len(record_ids) = 1

\* the list is in ascending order
Ascending(list) == \A i, j \in 1..Len(list) : i < j => list[i] < list[j]

\* C34: record_ids is in ascending order when a load returns, and a create with a
\* generated id or a delete that finds it in ascending order leaves it so
C34_RecordIdsSorted ==
    [][/\ last'.op = "load" => Ascending(record_ids')
       /\ (/\ Ascending(record_ids)
           /\ \/ last'.op = "delete"
              \/ (last'.op = "create" /\ last'.auto))
              => Ascending(record_ids')]_vars

---------------------------------------------------------------------------
(* evaluate_domain, one pass of its while loop at a time, on the sequences *)
(* of up to MaxDomainLen booleans and operators                            *)

OperatorDomains == UNION {[1..n -> {"T", "F", "&", "|"}] : n \in 0..MaxDomainLen}

\* domain_changed after a pass on d: one of the three rewrites set it (lines 88, 102
\* and 123)
PassChanged(d) ==
    \/ Len(d) >= 2 /\ IsBool(d[1]) /\ IsBool(d[1])
    \/ \E i \in 1..(Len(EvalRuleHead(d)) - 2) :
          /\ IsBool(EvalRuleHead(d)[i])
          /\ IsBool(EvalRuleHead(d)[i + 1])
          /\ IsBool(EvalRuleHead(d)[i + 2])
    \/ /\ ~EvalPass(d).raised
       /\ \E i \in 1..(Len(EvalRuleTriple(EvalRuleHead(d))) - 2) :
             /\ ~IsBool(EvalRuleTriple(EvalRuleHead(d))[i])
             /\ IsBool(EvalRuleTriple(EvalRuleHead(d))[i + 1])
             /\ IsBool(EvalRuleTriple(EvalRuleHead(d))[i + 2])

\* no call of evaluate_domain is running
InitEval ==
    /\ disk = EmptyDict
    /\ table_on_disk = TRUE
    /\ record_ids = <<>>
    /\ table_deleted = FALSE
    /\ closed = FALSE
    /\ cache = EmptyDict
    /\ cache_table = NewDict
    /\ access_list = <<>>
    /\ cache_size = DefaultCacheSize
    /\ cache_size_limit = DefaultLimit(DefaultCacheSize)
    /\ handles = {}
    /\ written = EmptyDict
    /\ fields = DOMAIN FieldType
    /\ files = EmptyDict
    /\ root = {DbName}
    /\ tables = EmptyDict
    /\ last = [op |-> "init", pc |-> "done", arg |-> <<>>, domain |-> <<>>, passes |-> 0,
               out |-> "none"]

\* evaluate_domain(d), lines 76-80: the empty domain returns True, another enters
\* the loop
EvalCall(d) ==
    /\ last.pc = "done"
    /\ last' = IF Len(d) = 0
               THEN [op |-> "evaluate_domain", pc |-> "done", arg |-> d, domain |-> d,
                     passes |-> 0, out |-> "T"]
               ELSE [op |-> "evaluate_domain", pc |-> "while", arg |-> d, domain |-> d,
                     passes |-> 0, out |-> "none"]
    /\ UNCHANGED <<disk, table_on_disk, record_ids, table_deleted, closed, cache, cache_table,
                   access_list, cache_size, cache_size_limit, handles, written>>
    /\ UNCHANGED <<fields, files, root, tables>>

\* one pass of the while loop, lines 81-124: it raises, or it leaves the loop when
\* domain_changed stayed False
EvalIterate ==
    /\ last.pc = "while"
    /\ last' = IF EvalPass(last.domain).raised
               THEN [last EXCEPT !.pc = "done", !.out = "DomainError"]
               ELSE [last EXCEPT !.pc = IF PassChanged(last.domain) THEN "while" ELSE "check",
                                 !.domain = EvalPass(last.domain).dom,
                                 !.passes = IF PassChanged(last.domain) THEN @ + 1 ELSE @]
    /\ UNCHANGED <<disk, table_on_disk, record_ids, table_deleted, closed, cache, cache_table,
                   access_list, cache_size, cache_size_limit, handles, written>>
    /\ UNCHANGED <<fields, files, root, tables>>

\* lines 126-132
EvalReturn ==
    /\ last.pc = "check"
    /\ last' = [last EXCEPT !.pc = "done",
                            !.out = IF Len(last.domain) # 1 THEN "DomainError"
                                    ELSE IF ~IsBool(last.domain[1]) THEN "DomainError"
                                    ELSE last.domain[1]]
    /\ UNCHANGED <<disk, table_on_disk, record_ids, table_deleted, closed, cache, cache_table,
                   access_list, cache_size, cache_size_limit, handles, written>>
    /\ UNCHANGED <<fields, files, root, tables>>

NextEval ==
    \/ \E d \in OperatorDomains : EvalCall(d)
    \/ EvalIterate
    \/ EvalReturn

\* the interpreter runs the statements of a call one after the other
SpecEval == InitEval /\ [][NextEval]_vars /\ WF_vars(EvalIterate) /\ WF_vars(EvalReturn)

\* C35: a pass of the loop that sets domain_changed leaves the sequence shorter; a
\* call that entered the loop ends; and it ends with the boolean that is left alone,
\* or with DomainError when what is left is not one boolean
C35_EvaluateTerminates ==
    /\ [][(last.pc = "while" /\ last'.pc = "while") => Len(last'.domain) < Len(last.domain)]_vars
    /\ [](last.pc = "while" => <>(last.pc = "done"))
    /\ [](last.pc = "done" /\ Len(last.arg) > 0
            => last.out = IF Len(last.domain) = 1 /\ IsBool(last.domain[1])
                          THEN last.domain[1] ELSE "DomainError")

\* a call on four tokens ended with a boolean after two passes that changed the
\* sequence
C35_Witness ==
    /\ last.op = "evaluate_domain"
    /\ last.pc = "done"
    /\ Len(last.arg) = 4
    /\ last.passes = 2
    /\ last.out \in {"T", "F"}

\* C36: a Table.create that raises FsdbError leaves the table directory and the
\* fields stored in it as the call found them
C36_RejectedCreateLeavesNothing ==
    (last.op = "create_table" /\ last.out = "FsdbError")
        => (table_on_disk = last.existed /\ fields = last.schema)

---------------------------------------------------------------------------
(* Reads through the cache against reads of data.json                      *)

\* the values written: a str, a datetime, a tuple, and a list to the tuple field
CoherentWriteInputs ==
    {("val1" :> <<"str", 1>>), ("val2" :> <<"datetime", 1>>), ("val3" :> <<"tuple", 1>>),
     ("val3" :> <<"list", 1>>)}

CoherentReadInputs ==
    {[all |-> TRUE, names |-> <<>>], [all |-> FALSE, names |-> <<"val1">>],
     [all |-> FALSE, names |-> <<"val3">>]}

NextCoherent ==
    \/ \E values \in {EmptyDict, ("val3" :> <<"tuple", 1>>)} : DbCreate(values)
    \/ \E h \in handles, values \in CoherentWriteInputs : RecWrite(h, values)
    \/ \E h \in handles, field_names \in CoherentReadInputs : RecRead(h, field_names)
    \/ \E h \in handles : RecDelete(h)
    \/ \E size \in CacheSizeInputs : SetCacheSize(size)

SpecCoherent == Init /\ [][NextCoherent]_vars

\* Record.read of the record with the cache emptied first: the outcome and the values
ColdRead(index, field_names) ==
    [out |-> RecordRead(cache_clear(CacheState), disk, record_ids, index, field_names).out,
     vals |-> RecordRead(cache_clear(CacheState), disk, record_ids, index, field_names).vals]

\* C37: every Record.read ends as the same read would have ended on an empty cache,
\* with the same values
C37_CacheIsTransparent ==
    [][last'.op = "read"
           => [out |-> last'.out, vals |-> last'.vals] = ColdRead(last'.index, last'.req)]_vars

---------------------------------------------------------------------------
(* The reduction loop of search_records and tools.evaluate_domain on the   *)
(* same processed domain                                                   *)

\* the processed domain of one record reduced by both: a search with the empty
\* domain evaluates nothing
Reduce(d) ==
    /\ Len(d) > 0
    /\ last' = [op |-> "reduce", domain |-> d, inline |-> SearchEvaluate(d),
                tools |-> evaluate_domain(d)]
    /\ UNCHANGED <<disk, table_on_disk, record_ids, table_deleted, closed, cache, cache_table,
                   access_list, cache_size, cache_size_limit, handles, written>>
    /\ UNCHANGED <<fields, files, root, tables>>

NextAgree == \E d \in OperatorDomains : Reduce(d)

SpecAgree == Init /\ [][NextAgree]_vars

\* C38: on a processed domain of booleans, '&' and '|', the loop of search_records
\* and evaluate_domain give the same boolean, or both raise
C38_ReductionsAgree ==
    last.op = "reduce"
        => \/ last.inline \in {"T", "F"} /\ last.tools = last.inline
           \/ last.inline = "FsdbError" /\ last.tools = "DomainError"

---------------------------------------------------------------------------
(* validate_domain tries one assignment of its filters; a search evaluates *)
(* the domain with the outcome of every filter on every record             *)

\* the shapes of a domain: a filter on id, '&' or '|' at each place
DomainShapes == UNION {[1..n -> {"filter", "&", "|"}] : n \in 0..MaxDomainLen}

\* the outcomes of the filters of a shape: a boolean at each filter
Outcomes(shape) ==
    {o \in [1..Len(shape) -> {"T", "F"}] : \A i \in 1..Len(shape) : shape[i] # "filter" => o[i] = "T"}

\* the domain as the caller writes it
RawDomain(shape) ==
    ListDomain([i \in 1..Len(shape) |->
                    IF shape[i] = "filter" THEN Filter("id", "=", 1) ELSE Tok(shape[i])])

\* the domain with its filters replaced by their outcomes on one record
ProcessedDomain(shape, o) ==
    [i \in 1..Len(shape) |-> IF shape[i] = "filter" THEN o[i] ELSE shape[i]]

\* validate_domain on the domain, then evaluate_domain on its processed form
ValidateThenEvaluate(shape, o) ==
    /\ last' = [op |-> "validate", shape |-> shape,
                valid |-> validate_domain(RawDomain(shape), {"id"}),
                processed |-> ProcessedDomain(shape, o),
                out |-> evaluate_domain(ProcessedDomain(shape, o))]
    /\ UNCHANGED <<disk, table_on_disk, record_ids, table_deleted, closed, cache, cache_table,
                   access_list, cache_size, cache_size_limit, handles, written>>
    /\ UNCHANGED <<fields, files, root, tables>>

NextValidate == \E shape \in DomainShapes : \E o \in Outcomes(shape) : ValidateThenEvaluate(shape, o)

SpecValidate == Init /\ [][NextValidate]_vars

\* C39: a domain that validate_domain accepts evaluates to a boolean, without an
\* error, whatever its filters give
C39_AcceptedDomainEvaluates ==
    (last.op = "validate" /\ last.valid = "ok") => last.out \in {"T", "F"}

\* an accepted domain whose first filter is False before an operator: the first
\* rewrite keeps the False where the trial of validate_domain kept the operator
C39_Witness ==
    /\ last.op = "validate"
    /\ last.valid = "ok"
    /\ Len(last.processed) >= 3
    /\ last.processed[1] = "F"
    /\ last.processed[2] \in {"&", "|"}
    /\ last.out = "F"

---------------------------------------------------------------------------
(* The access list and the keys of the cache                               *)

\* one iteration of the eviction loop from this cache: del_cache of the key used
\* least recently takes one key from the access list and one from the mapping
IterationRemovesOne(c) ==
    /\ Len(del_cache(c, c.access_list[1]).access_list) = Len(c.access_list) - 1
    /\ DOMAIN del_cache(c, c.access_list[1]).cache = (DOMAIN c.cache) \ {c.access_list[1]}
    /\ c.access_list[1] \in DOMAIN c.cache

\* C40: after any calls of to_cache, from_cache, del_cache and clear the access list
\* holds the keys of the cache, each once, and no other key; so an iteration of the
\* eviction loop removes one entry, and a put that ran the loop left it by its test
C40_AccessListIsTheKeys ==
    /\ Range(access_list) = DOMAIN cache
    /\ DistinctKeys(access_list)
    /\ access_list # <<>> => IterationRemovesOne(CacheState)
    /\ (last.op = "to_cache" /\ last.evicts)
           => (TableSizeOf(cache_table) <= cache_size \/ access_list = <<>>)

\* a key put again while another key is cached: it moved to the end of the list
C40_Witness ==
    /\ last.op = "to_cache"
    /\ last.run.clean
    /\ ~DistinctKeys(last.run.keys)
    /\ Len(access_list) >= 2
    /\ access_list[Len(access_list)] = last.key

====
